---- MODULE Spec2Model ----
(***************************************************************************)
(* Asset valuation and denomination engine of shillervsgold: nearest-date  *)
(* lookups, real/nominal conversion, getAssetValue, and the statistics     *)
(* snapshot, as implemented by the browser app (loadDataFromAPIs and the   *)
(* functions around it) and by preprocess.js.                              *)
(*                                                                         *)
(* Dates are whole days (the code works in milliseconds; every date of the *)
(* model is a multiple of one day).  A JavaScript number is a record       *)
(* [k, n, d]: k = "num" is the rational n/d in lowest terms with d > 0,    *)
(* k = "nan", "inf", "ninf" are NaN, +Infinity, -Infinity, and k = "null", *)
(* "undef" are the values null and undefined.  Arithmetic is exact: the    *)
(* rounding of IEEE doubles is not modelled.                               *)
(***************************************************************************)
EXTENDS Integers, Sequences, FiniteSets, TLC

VARIABLES stockData, homeData, goldData, btcData, customAssets, baseCPI,
          stats, loadState, result, network, page, debounced

vars == <<stockData, homeData, goldData, btcData, customAssets, baseCPI,
          stats, loadState, result, network, page, debounced>>

----------------------------------------------------------------------------
(* Bounds of the model *)

\* longest raw series handed to ingestion
MaxLen == 2
\* dates of the lookup model are 0, DateStep, ..., MaxDateIdx * DateStep
MaxDateIdx == 4
\* requests to Polygon.io counted per ticker
MaxRequests == 2

----------------------------------------------------------------------------
(* JavaScript numbers *)

NaN == [k |-> "nan", n |-> 0, d |-> 1]
Null == [k |-> "null", n |-> 0, d |-> 1]
Undef == [k |-> "undef", n |-> 0, d |-> 1]
PosInf == [k |-> "inf", n |-> 0, d |-> 1]
NegInf == [k |-> "ninf", n |-> 0, d |-> 1]

Abs(x) == IF x < 0 THEN -x ELSE x

RECURSIVE GCD(_, _)
GCD(a, b) == IF b = 0 THEN a ELSE GCD(b, a % b)

\* the rational n/d (d # 0) in lowest terms
Rat(n, d) ==
    LET g == GCD(Abs(n), Abs(d))
        s == IF d < 0 THEN -1 ELSE 1
    IN  [k |-> "num", n |-> (s * n) \div g, d |-> (s * d) \div g]

Num(i) == [k |-> "num", n |-> i, d |-> 1]

\* ToNumber: null is 0, undefined is NaN
ToNumber(x) ==
    IF x.k = "null" THEN Num(0) ELSE IF x.k = "undef" THEN NaN ELSE x

\* -1, 0, 1 for a number that is not NaN
Sign(x) ==
    IF x.k = "inf" THEN 1
    ELSE IF x.k = "ninf" THEN -1
    ELSE IF x.n > 0 THEN 1 ELSE IF x.n < 0 THEN -1 ELSE 0

Signed(s) == IF s > 0 THEN PosInf ELSE NegInf

IsFiniteNum(x) == x.k = "num"

\* a * b
Mul(a0, b0) ==
    LET a == ToNumber(a0)
        b == ToNumber(b0)
    IN  IF a.k = "nan" \/ b.k = "nan" THEN NaN
        ELSE IF a.k = "num" /\ b.k = "num" THEN Rat(a.n * b.n, a.d * b.d)
        ELSE IF Sign(a) * Sign(b) = 0 THEN NaN
        ELSE Signed(Sign(a) * Sign(b))

\* a / b
Div(a0, b0) ==
    LET a == ToNumber(a0)
        b == ToNumber(b0)
    IN  IF a.k = "nan" \/ b.k = "nan" THEN NaN
        ELSE IF a.k = "num" /\ b.k = "num"
             THEN IF b.n = 0
                  THEN IF a.n = 0 THEN NaN ELSE Signed(Sign(a))
                  ELSE Rat(a.n * b.d, a.d * b.n)
        ELSE IF a.k # "num" /\ b.k # "num" THEN NaN
        ELSE IF a.k = "num" THEN Num(0)
        ELSE Signed(Sign(a) * (IF Sign(b) < 0 THEN -1 ELSE 1))

\* a - b
Sub(a0, b0) ==
    LET a == ToNumber(a0)
        b == ToNumber(b0)
    IN  IF a.k = "nan" \/ b.k = "nan" THEN NaN
        ELSE IF a.k = "num" /\ b.k = "num"
             THEN Rat(a.n * b.d - b.n * a.d, a.d * b.d)
        ELSE IF a.k = b.k THEN NaN
        ELSE IF a.k = "num" THEN Signed(0 - Sign(b))
        ELSE a

\* a < b
Lt(a0, b0) ==
    LET a == ToNumber(a0)
        b == ToNumber(b0)
    IN  IF a.k = "nan" \/ b.k = "nan" THEN FALSE
        ELSE IF a.k = "num" /\ b.k = "num" THEN a.n * b.d < b.n * a.d
        ELSE IF a.k = b.k THEN FALSE
        ELSE a.k = "ninf" \/ b.k = "inf"

\* a <= b
Le(a0, b0) ==
    LET a == ToNumber(a0)
        b == ToNumber(b0)
    IN  a.k # "nan" /\ b.k # "nan" /\ ~Lt(b, a)

\* isNaN(x)
IsNaN(x) == ToNumber(x).k = "nan"

\* the truth value of x in a condition: null, undefined, NaN and 0 are false
Truthy(x) == x.k \in {"inf", "ninf"} \/ (x.k = "num" /\ x.n # 0)

\* a || b
Or(a, b) == IF Truthy(a) THEN a ELSE b

\* property access: a missing property is undefined
Field(pt, f) == IF f \in DOMAIN pt THEN pt[f] ELSE Undef

----------------------------------------------------------------------------
(* Series *)

\* 30 * 24 * 60 * 60 * 1000 ms, in days
thirtyDays == 30

DateStep == thirtyDays \div 2
Dates == {i * DateStep : i \in 0..MaxDateIdx}

Tickers == {"T"}

SeqsUpTo(S, n) == UNION {[1..k -> S] : k \in 0..n}

Last(s) == s[Len(s)]

\* x put behind the elements of the sorted s that are not later than x
InsertByDate(x, s) ==
    LET k == Cardinality({i \in 1..Len(s) : s[i].date <= x.date})
    IN  SubSeq(s, 1, k) \o <<x>> \o SubSeq(s, k + 1, Len(s))

\* .sort((a, b) => a.date - b.date): ascending by date, stable
RECURSIVE SortByDate(_)
SortByDate(s) ==
    IF s = <<>> THEN <<>>
    ELSE InsertByDate(Last(s), SortByDate(SubSeq(s, 1, Len(s) - 1)))

IsSortedByDate(s) == \A i \in 1..Len(s) - 1 : s[i].date <= s[i + 1].date

\* the loop with diff <= minDiff: on a tie the later element wins
RECURSIVE ScanNearestLastWins(_, _, _, _)
ScanNearestLastWins(data, target, i, closest) ==
    IF i > Len(data) THEN closest
    ELSE ScanNearestLastWins(data, target, i + 1,
            IF Abs(target - data[i].date) <= Abs(target - data[closest].date)
            THEN i ELSE closest)

\* the loop of a nearest-date lookup from element i on, closest being the
\* index of the nearest element so far (minDiff is its distance)
RECURSIVE ScanNearest(_, _, _, _)
ScanNearest(data, target, i, closest) ==
    IF i > Len(data) THEN closest
    ELSE ScanNearest(data, target, i + 1,
            IF Abs(target - data[i].date) < Abs(target - data[closest].date)
            THEN i ELSE closest)

\* index of the element the lookups call closest; data is not empty
NearestIdx(data, target) == ScanNearest(data, target, 1, 1)

----------------------------------------------------------------------------
(* Lookups of the app *)

getDataArrayForAsset(asset) ==
    IF asset \in {"cape", "sp500"} THEN stockData
    ELSE IF asset = "home" THEN homeData
    ELSE IF asset = "gold" THEN goldData
    ELSE IF asset = "btc" THEN btcData
    ELSE IF asset \in DOMAIN customAssets THEN customAssets[asset]
    ELSE <<>>

getCPIForDate(targetDate) ==
    IF Len(stockData) = 0 THEN baseCPI
    ELSE Or(stockData[NearestIdx(stockData, targetDate)].cpi, baseCPI)

getGoldPriceForDate(targetDate) ==
    IF Len(goldData) = 0 THEN Null
    ELSE goldData[NearestIdx(goldData, targetDate)].price

getHomePriceForDate(targetDate) ==
    IF Len(homeData) = 0 THEN Null
    ELSE homeData[NearestIdx(homeData, targetDate)].realPrice

getSP500ForDate(targetDate) ==
    IF Len(stockData) = 0 THEN Null
    ELSE stockData[NearestIdx(stockData, targetDate)].sp500

getCapeForDate(targetDate) ==
    IF Len(stockData) = 0 THEN Null
    ELSE stockData[NearestIdx(stockData, targetDate)].cape

\* the lookup without the check against the first date
getBitcoinPriceNoCutoff(targetDate) ==
    IF Len(btcData) = 0 THEN Null
    ELSE btcData[NearestIdx(btcData, targetDate)].price

getBitcoinPriceForDate(targetDate) ==
    IF Len(btcData) = 0 THEN Null
    ELSE IF targetDate < btcData[1].date - thirtyDays THEN Null
    ELSE btcData[NearestIdx(btcData, targetDate)].price

getCustomAssetPriceForDate(ticker, targetDate) ==
    IF ticker \notin DOMAIN customAssets THEN Null
    ELSE LET data == customAssets[ticker]
         IN  IF targetDate < data[1].date - thirtyDays THEN Null
             ELSE data[NearestIdx(data, targetDate)].price

(* Lookups of preprocess.js: the series is an argument *)

getGoldPrice(gd, targetDate) ==
    IF Len(gd) = 0 THEN Null ELSE gd[NearestIdx(gd, targetDate)].price

getCPI(sd, targetDate) ==
    IF Len(sd) = 0 THEN Null ELSE sd[NearestIdx(sd, targetDate)].cpi

----------------------------------------------------------------------------
(* Valuation *)

\* the keys of assetMetadata
assetMetadata == {"cape", "home", "sp500", "gold", "btc"}

\* price * (baseCPI / cpi), cpi being getCPIForDate of the date
realValue(price, date) == Mul(price, Div(baseCPI, getCPIForDate(date)))

\* assetValue * (cpi / baseCPI), cpi being dataPoint.cpi or, without one,
\* getCPIForDate of its date
nominalValue(assetValue, dataPoint) ==
    LET cpi == Or(Field(dataPoint, "cpi"), getCPIForDate(dataPoint.date))
    IN  Mul(assetValue, Div(cpi, baseCPI))

\* the gold denominator left as the nominal price
denominatorValueNominalGold(mode, date) ==
    IF mode = "gold" THEN
        LET goldPrice == getGoldPriceForDate(date)
        IN  IF ~Truthy(goldPrice) THEN Null ELSE goldPrice
    ELSE IF mode = "btc" THEN
        LET btcPrice == getBitcoinPriceForDate(date)
        IN  IF ~Truthy(btcPrice) THEN Null ELSE realValue(btcPrice, date)
    ELSE IF mode = "home" THEN
        LET homePrice == getHomePriceForDate(date)
        IN  IF ~Truthy(homePrice) THEN Null ELSE homePrice
    ELSE IF mode = "sp500" THEN
        LET sp500Price == getSP500ForDate(date)
        IN  IF ~Truthy(sp500Price) THEN Null ELSE sp500Price
    ELSE IF mode = "cape" THEN
        LET capeValue == getCapeForDate(date)
        IN  IF ~Truthy(capeValue) THEN Null ELSE capeValue
    ELSE IF mode \in DOMAIN customAssets THEN
        LET customPrice == getCustomAssetPriceForDate(mode, date)
        IN  IF ~Truthy(customPrice) THEN Null ELSE realValue(customPrice, date)
    ELSE Null

\* the denominator of the asset-denominated mode, Null where the code
\* returns null before dividing
denominatorValue(mode, date) ==
    IF mode = "gold" THEN
        LET goldPrice == getGoldPriceForDate(date)
        IN  IF ~Truthy(goldPrice) THEN Null ELSE realValue(goldPrice, date)
    ELSE IF mode = "btc" THEN
        LET btcPrice == getBitcoinPriceForDate(date)
        IN  IF ~Truthy(btcPrice) THEN Null ELSE realValue(btcPrice, date)
    ELSE IF mode = "home" THEN
        LET homePrice == getHomePriceForDate(date)
        IN  IF ~Truthy(homePrice) THEN Null ELSE homePrice
    ELSE IF mode = "sp500" THEN
        LET sp500Price == getSP500ForDate(date)
        IN  IF ~Truthy(sp500Price) THEN Null ELSE sp500Price
    ELSE IF mode = "cape" THEN
        LET capeValue == getCapeForDate(date)
        IN  IF ~Truthy(capeValue) THEN Null ELSE capeValue
    ELSE IF mode \in DOMAIN customAssets THEN
        LET customPrice == getCustomAssetPriceForDate(mode, date)
        IN  IF ~Truthy(customPrice) THEN Null ELSE realValue(customPrice, date)
    ELSE Null

\* the first half of getAssetValue: the asset's own value; the asset is a
\* key of assetMetadata or a cached ticker
assetValueOf(dataPoint, asset, mode) ==
    IF asset = "cape" THEN Or(Field(dataPoint, "cape"), Num(0))
    ELSE IF asset = "home" THEN Or(Field(dataPoint, "realPrice"), Num(0))
    ELSE IF asset = "sp500" THEN Or(Field(dataPoint, "sp500"), Num(0))
    ELSE LET price == Or(Field(dataPoint, "price"), Num(0))
         IN  IF mode = "nominal" THEN price
             ELSE realValue(price, dataPoint.date)

getAssetValue(dataPoint, asset, mode) ==
    IF asset \notin assetMetadata /\ asset \notin DOMAIN customAssets THEN Null
    ELSE IF /\ asset \notin {"cape", "home", "sp500"}
            /\ ~Truthy(Or(Field(dataPoint, "price"), Num(0)))
         THEN Null
    ELSE LET assetValue == assetValueOf(dataPoint, asset, mode)
         IN  IF mode = "real" THEN assetValue
             ELSE IF mode = "nominal" THEN
                 IF asset \in {"gold", "btc"} THEN assetValue
                 ELSE nominalValue(assetValue, dataPoint)
             ELSE LET den == denominatorValue(mode, dataPoint.date)
                  IN  IF ~Truthy(den) THEN Null ELSE Div(assetValue, den)

----------------------------------------------------------------------------
(* Ingestion *)

\* a date the Date constructor could not parse (getTime() is NaN)
InvalidDate == 0 - 1

\* stockJson.filter(..).map(..).filter(..).sort(..); a raw item carries the
\* numbers parseFloat made of its fields
ingestStock(raw) ==
    LET mapped == [i \in 1..Len(raw) |->
                     [date |-> raw[i].date, sp500 |-> raw[i].sp500,
                      cape |-> Or(raw[i].cape, Num(0)), cpi |-> raw[i].cpi]]
        Keep(item) == /\ item.date # InvalidDate
                      /\ ~IsNaN(item.sp500)
                      /\ Lt(Num(0), item.sp500)
    IN  SortByDate(SelectSeq(mapped, Keep))

ingestHome(raw) ==
    LET Keep(item) == /\ item.date # InvalidDate
                      /\ ~IsNaN(item.realPrice)
                      /\ Lt(Num(0), item.realPrice)
    IN  SortByDate(SelectSeq(raw, Keep))

\* the gold and the Bitcoin CSV: lines of date, price
ingestPrices(raw) ==
    LET Keep(item) == /\ item.date # InvalidDate
                      /\ ~IsNaN(item.price)
                      /\ Lt(Num(0), item.price)
    IN  SortByDate(SelectSeq(raw, Keep))

----------------------------------------------------------------------------
(* Statistics of the app *)

\* x put behind the elements of the sorted s that are not greater than x
InsertNum(x, s) ==
    LET k == Cardinality({i \in 1..Len(s) : ~Lt(x, s[i])})
    IN  SubSeq(s, 1, k) \o <<x>> \o SubSeq(s, k + 1, Len(s))

\* .sort((a, b) => a - b)
RECURSIVE SortNum(_)
SortNum(s) ==
    IF s = <<>> THEN <<>>
    ELSE InsertNum(Last(s), SortNum(SubSeq(s, 1, Len(s) - 1)))

\* the percentile that also counts the ratios equal to the current one
percentileOfInclusive(ratios, currentRatio) ==
    LET atMost == Cardinality({i \in 1..Len(ratios) :
                       Lt(ratios[i], currentRatio) \/ ratios[i] = currentRatio})
    IN  Mul(Div(Num(atMost), Num(Len(ratios))), Num(100))

\* ratios.filter(r => r < currentRatio).length / ratios.length * 100
percentileOf(ratios, currentRatio) ==
    LET below == Cardinality({i \in 1..Len(ratios) : Lt(ratios[i], currentRatio)})
    IN  Mul(Div(Num(below), Num(Len(ratios))), Num(100))

\* the statistics of loadDataFromAPIs, computed on the series it has just
\* assigned: sd, hd, gd, bd are stockData, homeData, goldData, btcData and
\* base is baseCPI
latestGoldReal(sd, gd, base) ==
    Mul(Last(gd).price, Div(base, Last(sd).cpi))

currentRatio(sd, gd, base) ==
    Div(Last(sd).cape, latestGoldReal(sd, gd, base))

historicalRatios(sd, gd, base) ==
    LET Ratio(stock) ==
            LET goldPrice == getGoldPrice(gd, stock.date)
            IN  IF ~Truthy(goldPrice) THEN Null
                ELSE Div(stock.cape, Mul(goldPrice, Div(base, stock.cpi)))
        mapped == [i \in 1..Len(sd) |-> Ratio(sd[i])]
        Keep(r) == r # Null /\ ~IsNaN(r)
    IN  SortNum(SelectSeq(mapped, Keep))

\* the stats object; sd and gd are not empty
loadStats(sd, hd, gd, bd, base) ==
    [currentCAPE |-> Last(sd).cape,
     currentGold |-> latestGoldReal(sd, gd, base),
     currentRatio |-> currentRatio(sd, gd, base),
     percentile |-> percentileOf(historicalRatios(sd, gd, base),
                                 currentRatio(sd, gd, base)),
     stock |-> Len(sd), home |-> Len(hd), gold |-> Len(gd), btc |-> Len(bd)]

----------------------------------------------------------------------------
(* The page: the loading overlay, the error message and the controls that
   the URL of the page is written from and read into *)

\* the asset of an input whose data-asset attribute is empty
Unset == ""

\* params.get of a parameter that the query string does not have
NoParam == "(none)"

\* a parameter that is there and not empty
HasParam(param) == param # NoParam /\ param # ""

\* getAssetName(asset): the name of a built-in asset, asset.toUpperCase()
\* of any other code on a page that has fetched no ticker
getAssetName(asset) ==
    IF asset = "cape" THEN "CAPE Ratio"
    ELSE IF asset = "home" THEN "Home Price Index"
    ELSE IF asset = "sp500" THEN "S&P 500"
    ELSE IF asset = "gold" THEN "Gold"
    ELSE IF asset = "btc" THEN "Bitcoin"
    ELSE IF asset = "t" THEN "T"
    ELSE asset

\* the controls of a page as it is served: the range 'modern', single
\* mode, no comparison rows, and asset and denominator as given
Controls(asset, denominator) ==
    [dateRange |-> "modern", startYear |-> "", endYear |-> "",
     eventPeriod |-> "1929-crash", eventYears |-> "",
     compareMode |-> FALSE, compareDenominator |-> "gold",
     asset1 |-> [value |-> "", asset |-> asset],
     denominator1 |-> [value |-> "", asset |-> denominator],
     investmentAmount |-> "",
     rows |-> <<>>]

\* the comparison rows loadConfigFromURL builds: the first has no remove
\* button
urlRows(assets) ==
    [i \in 1..Len(assets) |->
        [value |-> getAssetName(assets[i]), asset |-> assets[i],
         removable |-> i > 1]]

\* loadConfigFromURL() on the controls c, query being what
\* URLSearchParams gives for window.location.search
loadConfigFromURL(c, query) ==
    LET ranged == IF HasParam(query.range)
                  THEN [c EXCEPT !.dateRange = query.range] ELSE c
        custom == IF HasParam(query.start) /\ HasParam(query.end)
                  THEN [ranged EXCEPT !.dateRange = "custom",
                                      !.startYear = query.start,
                                      !.endYear = query.end]
                  ELSE ranged
        dated == IF HasParam(query.event)
                 THEN [custom EXCEPT !.dateRange = "event",
                                     !.eventPeriod = query.event,
                                     !.eventYears = IF HasParam(query.eventYears)
                                                    THEN query.eventYears ELSE @]
                 ELSE custom
    IN  IF query.compare = "true"
        THEN [dated EXCEPT !.compareMode = TRUE,
                           !.compareDenominator = IF HasParam(query.denom)
                                                  THEN query.denom ELSE "gold",
                           !.rows = IF Len(query.assets) > 0
                                    THEN urlRows(query.assets) ELSE @]
        ELSE [dated EXCEPT !.asset1.value = IF Len(query.assets) > 0
                                               /\ query.assets[1] # ""
                                            THEN query.assets[1] ELSE @,
                           !.denominator1.value = IF HasParam(query.denom)
                                                  THEN query.denom ELSE @,
                           !.investmentAmount = IF HasParam(query.amount)
                                                THEN query.amount ELSE @]

\* the parameters updateURL() writes for the controls c
updateURL(c) ==
    LET HasValue(row) == row.value # ""
    IN  [range |-> IF c.dateRange # "modern" THEN c.dateRange ELSE NoParam,
         start |-> IF c.dateRange = "custom" /\ c.startYear # ""
                   THEN c.startYear ELSE NoParam,
         end |-> IF c.dateRange = "custom" /\ c.endYear # ""
                 THEN c.endYear ELSE NoParam,
         event |-> NoParam,
         eventYears |-> NoParam,
         compare |-> IF c.compareMode THEN "true" ELSE NoParam,
         denom |-> IF c.compareMode THEN c.compareDenominator
                   ELSE c.denominator1.asset,
         assets |-> IF c.compareMode
                    THEN [i \in 1..Len(SelectSeq(c.rows, HasValue)) |->
                             SelectSeq(c.rows, HasValue)[i].value]
                    ELSE <<c.asset1.asset>>,
         amount |-> IF ~c.compareMode /\ c.investmentAmount # ""
                    THEN c.investmentAmount ELSE NoParam]

\* showLoading(), hideLoading() and showError(message)
showLoading(p) == [p EXCEPT !.overlay = TRUE]

hideLoading(p) == [p EXCEPT !.overlay = FALSE]

showError(p) == [p EXCEPT !.error = TRUE]

----------------------------------------------------------------------------
(* State machine *)

NoPoint == [date |-> 0]

\* what the last operation was applied to and what it returned
Res(op, asset, mode, pt, target, val) ==
    [op |-> op, asset |-> asset, mode |-> mode, pt |-> pt,
     target |-> target, val |-> val]

NoStats == [currentCAPE |-> Null, currentGold |-> Null, currentRatio |-> Null,
            percentile |-> Null, stock |-> 0, home |-> 0, gold |-> 0, btc |-> 0]

\* let timeout: no timer is set
NoTimeout == [due |-> 0 - 1, args |-> 0, call |-> 0]

\* the module-level declarations: empty series, stats and baseCPI null
Init ==
    /\ stockData = <<>>
    /\ homeData = <<>>
    /\ goldData = <<>>
    /\ btcData = <<>>
    /\ customAssets = <<>>
    /\ baseCPI = Null
    /\ stats = Null
    /\ loadState = "idle"
    /\ result = Res("none", "", "", NoPoint, 0, Null)
    /\ network = [requests |-> [t \in Tickers |-> 0],
                  inflight |-> [t \in Tickers |-> 0]]
    /\ page = [overlay |-> FALSE, error |-> FALSE,
               controls |-> Controls(Unset, Unset)]
    /\ debounced = [now |-> 0, timeout |-> NoTimeout, calls |-> <<>>,
                    runs |-> <<>>]

\* the CPI of the first stock observation
earliestCPI(sd) == sd[1].cpi

\* baseCPI = stockData[stockData.length - 1].cpi
latestCPI(sd) == sd[Len(sd)].cpi

\* loadDataFromAPIs, called once by init.  fetched is false when a fetch or
\* the parsing of a response rejects.  An empty stock series throws at
\* stockData[stockData.length - 1].cpi, an empty gold series at
\* goldData[goldData.length - 1].price, an empty home or Bitcoin series at
\* the console.log of its first year, after stats was assigned.  The mode
\* of result tells how the call ended: "" it returned, "rejected" a fetch
\* rejected, "throw" a TypeError was thrown (the catch logs and rethrows).
loadDataFromAPIs(fetched, rawStock, rawHome, rawGold, rawBtc) ==
    /\ loadState = "idle"
    /\ result' = Res("loadDataFromAPIs", "",
                     IF ~fetched THEN "rejected"
                     ELSE IF \/ Len(ingestStock(rawStock)) = 0
                             \/ Len(ingestHome(rawHome)) = 0
                             \/ Len(ingestPrices(rawGold)) = 0
                             \/ Len(ingestPrices(rawBtc)) = 0
                     THEN "throw" ELSE "",
                     NoPoint, 0, Null)
    /\ UNCHANGED <<customAssets, network, page, debounced>>
    /\ IF ~fetched
       THEN /\ loadState' = "failed"
            /\ UNCHANGED <<stockData, homeData, goldData, btcData, baseCPI, stats>>
       ELSE LET sd == ingestStock(rawStock)
                hd == ingestHome(rawHome)
                gd == ingestPrices(rawGold)
                bd == ingestPrices(rawBtc)
            IN  IF Len(sd) = 0
                THEN /\ stockData' = <<>>
                     /\ loadState' = "failed"
                     /\ UNCHANGED <<homeData, goldData, btcData, baseCPI, stats>>
                ELSE /\ stockData' = sd
                     /\ baseCPI' = latestCPI(sd)
                     /\ homeData' = hd
                     /\ goldData' = gd
                     /\ btcData' = bd
                     /\ IF Len(gd) = 0
                        THEN stats' = stats /\ loadState' = "failed"
                        ELSE /\ stats' = loadStats(sd, hd, gd, bd, latestCPI(sd))
                             /\ loadState' = IF Len(hd) = 0 \/ Len(bd) = 0
                                             THEN "failed" ELSE "loaded"

\* network.requests counts the requests sent to Polygon.io for a ticker,
\* network.inflight those whose response has not arrived
RequestSent(n, ticker) ==
    [n EXCEPT !.requests[ticker] = @ + 1, !.inflight[ticker] = @ + 1]

ResponseArrived(n, ticker) ==
    [n EXCEPT !.inflight[ticker] = @ - 1]

\* the bars of a response that have a close: prices[i] !== null &&
\* !isNaN(prices[i])
validBars(results) ==
    LET Keep(item) == item.price # Null /\ ~IsNaN(item.price)
    IN  SelectSeq(results, Keep)

\* a response that fails on its status only
responseFailsOnStatus(responseOk, results) == ~responseOk

\* the response makes fetchPolygonData throw: a status that is not OK, no
\* results, or no bar with a close
responseFails(responseOk, results) ==
    \/ ~responseOk
    \/ Len(results) = 0
    \/ Len(validBars(results)) = 0

\* fetchPolygonData(ticker) from the call to its return, reached from a
\* suggestion once the listeners are set up.  results are the bars of the
\* response (t, c), which the request asks for in ascending order.  A call
\* for a cached ticker or without an API key sends no request.
fetchPolygonData(ticker, apiKey, responseOk, results) ==
    /\ loadState = "loaded"
    /\ UNCHANGED <<stockData, homeData, goldData, btcData, baseCPI, stats,
                   loadState, page, debounced>>
    /\ IF ticker \in DOMAIN customAssets
       THEN /\ UNCHANGED <<customAssets, network>>
            /\ result' = Res("fetchPolygonData", ticker, "", NoPoint, 0, Num(1))
       ELSE IF ~apiKey
       THEN /\ UNCHANGED <<customAssets, network>>
            /\ result' = Res("fetchPolygonData", ticker, "throw", NoPoint, 0, Null)
       ELSE LET data == validBars(results)
            IN  /\ network.requests[ticker] < MaxRequests
                /\ network' = ResponseArrived(RequestSent(network, ticker), ticker)
                /\ IF responseFails(responseOk, results)
                   THEN /\ UNCHANGED customAssets
                        /\ result' = Res("fetchPolygonData", ticker, "throw",
                                         NoPoint, 0, Null)
                   ELSE /\ customAssets' = (ticker :> data) @@ customAssets
                        /\ result' = Res("fetchPolygonData", ticker, "",
                                         NoPoint, 0, Num(1))

\* result records one call at a time.  A call leaves the series as they
\* are, so the calls are taken from the states that record none: the same
\* states are reached as when a call could follow a call.
NoCallRecorded ==
    result.op \in {"none", "loadDataFromAPIs", "fetchPolygonData",
                   "addComparisonRow"}

Returns(op, asset, target, val) ==
    /\ NoCallRecorded
    /\ result' = Res(op, asset, "", NoPoint, target, val)
    /\ UNCHANGED <<stockData, homeData, goldData, btcData, customAssets,
                   baseCPI, stats, loadState, network, page, debounced>>

CallGetCPIForDate ==
    \E t \in Dates : Returns("getCPIForDate", "", t, getCPIForDate(t))

CallGetGoldPriceForDate ==
    \E t \in Dates : Returns("getGoldPriceForDate", "", t, getGoldPriceForDate(t))

CallGetHomePriceForDate ==
    \E t \in Dates : Returns("getHomePriceForDate", "", t, getHomePriceForDate(t))

CallGetSP500ForDate ==
    \E t \in Dates : Returns("getSP500ForDate", "", t, getSP500ForDate(t))

CallGetCapeForDate ==
    \E t \in Dates : Returns("getCapeForDate", "", t, getCapeForDate(t))

CallGetBitcoinPriceForDate ==
    \E t \in Dates :
        Returns("getBitcoinPriceForDate", "", t, getBitcoinPriceForDate(t))

CallGetCustomAssetPriceForDate ==
    \E ticker \in Tickers, t \in Dates :
        Returns("getCustomAssetPriceForDate", ticker, t,
                getCustomAssetPriceForDate(ticker, t))

\* preprocess.js on the same series
CallGetGoldPrice ==
    \E t \in Dates : Returns("getGoldPrice", "", t, getGoldPrice(goldData, t))

CallGetCPI ==
    \E t \in Dates : Returns("getCPI", "", t, getCPI(stockData, t))

----------------------------------------------------------------------------
(* The lookups on series of every shape: the i-th raw item of a feed has   *)
(* the value i, or no value (a missing CPI and CAPE, a price that is not a *)
(* number)                                                                 *)

LookupFeeds == SeqsUpTo([date : Dates, missing : BOOLEAN], MaxLen)

FeedStock(q) ==
    [i \in 1..Len(q) |->
        [date |-> q[i].date, sp500 |-> Num(i),
         cape |-> IF q[i].missing THEN NaN ELSE Num(i),
         cpi |-> IF q[i].missing THEN NaN ELSE Num(i)]]

FeedHome(q) ==
    [i \in 1..Len(q) |->
        [date |-> q[i].date,
         realPrice |-> IF q[i].missing THEN NaN ELSE Num(i)]]

FeedPrices(q) ==
    [i \in 1..Len(q) |->
        [date |-> q[i].date,
         price |-> IF q[i].missing THEN NaN ELSE Num(i)]]

LoadLookup ==
    /\ loadState = "idle"
    /\ \E q \in LookupFeeds, fetched \in BOOLEAN :
          loadDataFromAPIs(fetched, FeedStock(q), FeedHome(q), FeedPrices(q),
                           FeedPrices(q))

NextLookup ==
    \/ LoadLookup
    \/ CallGetCPIForDate
    \/ CallGetGoldPriceForDate
    \/ CallGetHomePriceForDate
    \/ CallGetSP500ForDate
    \/ CallGetCapeForDate
    \/ CallGetGoldPrice
    \/ CallGetCPI

SpecLookup == Init /\ [][NextLookup]_vars

----------------------------------------------------------------------------
(* The lookups of the bounded-history assets: Bitcoin series of every      *)
(* shape beside one fixed observation of the other sources, and a ticker   *)
(* whose bars arrive in ascending order                                    *)

BaseStock == <<[date |-> 0, sp500 |-> Num(1), cape |-> Num(1), cpi |-> Num(1)]>>
BaseHome == <<[date |-> 0, realPrice |-> Num(1)]>>
BasePrices == <<[date |-> 0, price |-> Num(1)]>>

\* a bar without a close has c = null
FeedBars(q) ==
    [i \in 1..Len(q) |->
        [date |-> q[i].date,
         price |-> IF q[i].missing THEN Null ELSE Num(i)]]

LoadBounded ==
    /\ loadState = "idle"
    /\ \E q \in {f \in LookupFeeds : \A i \in 1..Len(f) : ~f[i].missing} :
          loadDataFromAPIs(TRUE, BaseStock, BaseHome, BasePrices, FeedPrices(q))

\* a cached ticker is returned before the key, the response or the bars
\* are looked at.  The responses here carry at least one bar with a close:
\* a fetch that fails caches nothing, so it adds no lookup.
FetchBounded ==
    /\ loadState = "loaded"
    /\ \E ticker \in Tickers :
          IF ticker \in DOMAIN customAssets
          THEN fetchPolygonData(ticker, TRUE, TRUE, <<>>)
          ELSE \E q \in {f \in LookupFeeds :
                            /\ IsSortedByDate(f)
                            /\ \E i \in 1..Len(f) : ~f[i].missing} :
                  fetchPolygonData(ticker, TRUE, TRUE, FeedBars(q))

NextBounded ==
    \/ LoadBounded
    \/ FetchBounded
    \/ CallGetBitcoinPriceForDate
    \/ CallGetCustomAssetPriceForDate

SpecBounded == Init /\ [][NextBounded]_vars

----------------------------------------------------------------------------
(* Valuation: stock series of every shape on two dates more than 30 days   *)
(* apart, one observation of home (on the first date), of gold and of     *)
(* Bitcoin (on the second date), and one bar of a ticker.                   *)
(* The i-th stock item has sp500 2i, CAPE 2i + 1 and CPI i, or no CAPE, or *)
(* no CPI.                                                                 *)

ValDates == {0, thirtyDays + DateStep}

ValStockFeeds == SeqsUpTo([date : ValDates, kind : {"full", "noCape", "noCpi"}], MaxLen)

ValStock(q) ==
    [i \in 1..Len(q) |->
        [date |-> q[i].date, sp500 |-> Num(2 * i),
         cape |-> IF q[i].kind = "noCape" THEN NaN ELSE Num(2 * i + 1),
         cpi |-> IF q[i].kind = "noCpi" THEN NaN ELSE Num(i)]]

ValHome == <<[date |-> 0, realPrice |-> Num(7)]>>

ValPrices(date, price) == <<[date |-> date, price |-> Num(price)]>>

Assets == assetMetadata \cup Tickers

Modes == {"real", "nominal"} \cup Assets

LoadVal ==
    /\ loadState = "idle"
    /\ \E q \in ValStockFeeds, dg \in ValDates, fetched \in BOOLEAN :
          loadDataFromAPIs(fetched, ValStock(q), ValHome, ValPrices(dg, 11),
                           ValPrices(thirtyDays + DateStep, 13))

FetchVal ==
    \E ticker \in Tickers :
        IF ticker \in DOMAIN customAssets
        THEN fetchPolygonData(ticker, TRUE, TRUE, <<>>)
        ELSE \E apiKey \in BOOLEAN, responseOk \in BOOLEAN, d \in ValDates,
                c \in {0 - 17, 0, 17} :
                fetchPolygonData(ticker, apiKey, responseOk, ValPrices(d, c))

\* getAssetValue as createDataset and calculateInvestmentReturn call it: on
\* an item of the asset's own array, with any denominator code
CallGetAssetValue ==
    \E asset \in Assets, mode \in Modes :
        \E i \in 1..Len(getDataArrayForAsset(asset)) :
            LET dataPoint == getDataArrayForAsset(asset)[i]
            IN  /\ NoCallRecorded
                /\ result' = Res("getAssetValue", asset, mode, dataPoint,
                                 dataPoint.date,
                                 getAssetValue(dataPoint, asset, mode))
                /\ UNCHANGED <<stockData, homeData, goldData, btcData,
                               customAssets, baseCPI, stats, loadState,
                               network, page, debounced>>

Next ==
    \/ LoadVal
    \/ FetchVal
    \/ CallGetAssetValue

Spec == Init /\ [][Next]_vars

----------------------------------------------------------------------------
(* Statistics of preprocess.js *)

\* goldData.map(...).filter(item => item !== null): an observation whose
\* nearest CPI is missing or 0 is dropped, the others carry the real price
adjustedGold(gd, sd) ==
    LET HasCpi(gold) == Truthy(getCPI(sd, gold.date))
        kept == SelectSeq(gd, HasCpi)
    IN  [i \in 1..Len(kept) |->
            LET cpi == getCPI(sd, kept[i].date)
            IN  [date |-> kept[i].date,
                 price |-> Mul(kept[i].price, Div(Last(sd).cpi, cpi)),
                 nominalPrice |-> kept[i].price,
                 cpi |-> cpi]]

\* adjustGoldForInflation: with an empty series the gold series is returned
\* as it is
adjustGoldForInflation(gd, sd) ==
    IF Len(gd) = 0 \/ Len(sd) = 0 THEN gd ELSE adjustedGold(gd, sd)

\* adjustedGold[0].price and latestGold.price throw a TypeError when every
\* gold observation has been dropped
Thrown == [k |-> "throw", n |-> 0, d |-> 1]

\* stockData.map(...).filter(r => r !== null).sort((a, b) => a - b)
allRatios(sd, gd) ==
    LET HasGold(item) == Truthy(getGoldPrice(gd, item.date))
        kept == SelectSeq(sd, HasGold)
    IN  SortNum([i \in 1..Len(kept) |->
                    Div(kept[i].cape, getGoldPrice(gd, kept[i].date))])

computeStats(sd, gd) ==
    IF Len(sd) = 0 \/ Len(gd) = 0 THEN Null
    ELSE LET realGoldData == adjustGoldForInflation(gd, sd)
         IN  IF Len(realGoldData) = 0 THEN Thrown
             ELSE LET latestStock == Last(sd)
                      latestGold == Last(realGoldData)
                      ratio == Div(latestStock.cape, latestGold.price)
                  IN  [currentCAPE |-> latestStock.cape,
                       currentGold |-> latestGold.price,
                       currentRatio |-> ratio,
                       percentile |-> percentileOf(allRatios(sd, gd), ratio),
                       stock |-> Len(sd), home |-> 0, gold |-> Len(gd)]

\* main: computeStats on the series the script has ingested, which the
\* pipeline of loadDataFromAPIs builds in the same way
CallComputeStats ==
    /\ NoCallRecorded
    /\ result' = Res("computeStats", "", "", NoPoint, 0,
                     computeStats(stockData, goldData))
    /\ UNCHANGED <<stockData, homeData, goldData, btcData, customAssets,
                   baseCPI, stats, loadState, network, page, debounced>>

----------------------------------------------------------------------------
(* Statistics: a load of monthly stock observations with or without CAPE and
   CPI and of gold observations before and after them, then the statistics
   of the build script on the same series *)

MaxStatLen == 3
MaxGold == 2

\* the CAPE of a raw stock item; 0 stands for a missing one
StatCapes == {0, 1, 2}

\* the date of the i-th monthly stock observation
StatDate(i) == i * thirtyDays

StatStockFeeds ==
    SeqsUpTo([cape : StatCapes, hasCpi : BOOLEAN], MaxStatLen)

StatStock(q) ==
    [i \in 1..Len(q) |->
        [date |-> StatDate(i), sp500 |-> Num(i),
         cape |-> IF q[i].cape = 0 THEN NaN ELSE Num(q[i].cape),
         cpi |-> IF q[i].hasCpi THEN Num(i) ELSE NaN]]

\* five observations whose CAPE rises from 1 to 5 at a constant price level
BoundaryStock ==
    [i \in 1..5 |->
        [date |-> StatDate(i), sp500 |-> Num(i), cape |-> Num(i),
         cpi |-> Num(1)]]

\* one gold observation before the stock observations and one after them,
\* each of a price 1..MaxGold or absent (0)
StatGoldFeeds == [early : 0..MaxGold, late : 0..MaxGold]

StatGold(g) ==
    (IF g.early = 0 THEN <<>>
     ELSE <<[date |-> 0, price |-> Num(g.early)]>>)
    \o (IF g.late = 0 THEN <<>>
        ELSE <<[date |-> StatDate(MaxStatLen + 1), price |-> Num(g.late)]>>)

LoadStat ==
    /\ loadState = "idle"
    /\ \E rawStock \in {StatStock(q) : q \in StatStockFeeds} \cup {BoundaryStock},
          g \in StatGoldFeeds, fetched \in BOOLEAN :
          loadDataFromAPIs(fetched, rawStock, ValHome, StatGold(g),
                           ValPrices(0, 13))

NextStat == LoadStat \/ CallComputeStats

SpecStat == Init /\ [][NextStat]_vars

----------------------------------------------------------------------------
(* Return calculator *)

\* the filter that leaves out the observations on the bounds
filterByDateRangeExclusive(data, dateRange) ==
    LET InRange(item) == item.date > dateRange.start /\ item.date < dateRange.end
    IN  SelectSeq(data, InRange)

\* data.filter(item => item.date >= dateRange.start && item.date <= dateRange.end)
filterByDateRange(data, dateRange) ==
    LET InRange(item) == item.date >= dateRange.start /\ item.date <= dateRange.end
    IN  SelectSeq(data, InRange)

\* alert(...) and return: displayCalculatorResults is not called
Alert(msg) == [kind |-> "alert", msg |-> msg]

\* the days of a year
daysPerYear == Rat(1461, 4)

\* (Math.pow(multiplier, 1 / years) - 1) * 100 is kept as a term: a power
\* with a fractional exponent is not a rational
Cagr(multiplier, years) == [k |-> "cagr", n |-> multiplier, d |-> years]

\* the dollar figures that count the final value as the return
dollarReturnsGross(amount, multiplier) ==
    IF Lt(Num(0), amount)
    THEN [finalValue |-> Mul(amount, multiplier),
          totalReturn |-> Mul(amount, multiplier),
          returnPercentage |-> Mul(multiplier, Num(100))]
    ELSE [finalValue |-> Num(0), totalReturn |-> Num(0),
          returnPercentage |-> Mul(multiplier, Num(100))]

\* finalValue, totalReturn and returnPercentage
dollarReturns(amount, multiplier) ==
    IF Lt(Num(0), amount)
    THEN LET finalValue == Mul(amount, multiplier)
         IN  [finalValue |-> finalValue,
              totalReturn |-> Sub(finalValue, amount),
              returnPercentage |->
                  Mul(Div(Sub(finalValue, amount), amount), Num(100))]
    ELSE [finalValue |-> Num(0), totalReturn |-> Num(0),
          returnPercentage |-> Mul(Sub(multiplier, Num(1)), Num(100))]

\* the annualized return without the test of years
annualizedReturnUnguarded(multiplier, years) == Cagr(multiplier, years)

\* years > 0 ? (Math.pow(multiplier, 1 / years) - 1) * 100 : 0
annualizedReturnOf(multiplier, years) ==
    IF Lt(Num(0), years) THEN Cagr(multiplier, years) ELSE Num(0)

\* the argument of displayCalculatorResults for the two points of the range
calculatorResults(amount, asset, denominator, startPoint, endPoint) ==
    LET startValue == getAssetValue(startPoint, asset, denominator)
        endValue == getAssetValue(endPoint, asset, denominator)
        multiplier == Div(endValue, startValue)
        dollars == dollarReturns(amount, multiplier)
        years == Div(Num(endPoint.date - startPoint.date), daysPerYear)
    IN  IF \/ ~Truthy(startValue) \/ ~Truthy(endValue)
           \/ Le(startValue, Num(0)) \/ Le(endValue, Num(0))
        THEN Alert("Invalid data for the selected dates")
        ELSE [kind |-> "results",
              initialAmount |-> amount,
              finalValue |-> dollars.finalValue,
              totalReturn |-> dollars.totalReturn,
              returnPercentage |-> dollars.returnPercentage,
              annualizedReturn |-> annualizedReturnOf(multiplier, years),
              startDate |-> startPoint.date,
              endDate |-> endPoint.date,
              hasAmount |-> Lt(Num(0), amount)]

\* calculateInvestmentReturn: input is the value of the amount field as a
\* number (NaN when it does not parse), dateRange what getDateRange returns
calculateInvestmentReturn(input, asset, denominator, dateRange) ==
    LET amount == Or(input, Num(0))
        dataArray == getDataArrayForAsset(asset)
    IN  IF dateRange.start >= dateRange.end
        THEN Alert("Invalid date range")
        ELSE IF asset \notin assetMetadata /\ asset \notin DOMAIN customAssets
        THEN Alert("Data not available for this asset")
        ELSE LET filteredData == filterByDateRange(dataArray, dateRange)
             IN  IF Len(filteredData) < 2
                 THEN Alert("Not enough data points")
                 ELSE calculatorResults(amount, asset, denominator,
                                        filteredData[1], Last(filteredData))

\* the calculator, run by autoCalculateReturn and by the Calculate button
\* once the listeners are set up
CallCalculateInvestmentReturn(input, asset, denominator, dateRange) ==
    /\ loadState = "loaded"
    /\ NoCallRecorded
    /\ result' = Res("calculateInvestmentReturn", asset, denominator,
                     [date |-> 0, input |-> input, range |-> dateRange], 0,
                     calculateInvestmentReturn(input, asset, denominator,
                                               dateRange))
    /\ UNCHANGED <<stockData, homeData, goldData, btcData, customAssets,
                   baseCPI, stats, loadState, network, page, debounced>>

----------------------------------------------------------------------------
(* Return calculator: stock series of every shape on two dates (so that two
   observations may carry one date), with or without CPI or with a CPI of
   0, two observations of home, gold and Bitcoin, and two bars of a
   ticker, the first of them with a positive or a negative close *)

CalcStockFeeds ==
    SeqsUpTo([date : ValDates, kind : {"full", "noCpi", "zeroCpi"}], MaxLen)

CalcStock(q) ==
    [i \in 1..Len(q) |->
        [date |-> q[i].date, sp500 |-> Num(2 * i), cape |-> Num(2 * i + 1),
         cpi |-> IF q[i].kind = "noCpi" THEN NaN
                 ELSE IF q[i].kind = "zeroCpi" THEN Num(0) ELSE Num(i)]]

CalcHome ==
    <<[date |-> 0, realPrice |-> Num(7)],
      [date |-> thirtyDays + DateStep, realPrice |-> Num(14)]>>

CalcPrices(first, second) ==
    <<[date |-> 0, price |-> Num(first)],
      [date |-> thirtyDays + DateStep, price |-> Num(second)]>>

\* the value of the amount field: empty or a positive number
CalcInputs == {NaN, Num(2)}

\* what getDateRange returns: both dates, the first date only, the second
\* date only, and an empty range
CalcRanges ==
    {[start |-> 0, end |-> thirtyDays + DateStep],
     [start |-> 0, end |-> DateStep],
     [start |-> DateStep, end |-> thirtyDays + DateStep],
     [start |-> DateStep, end |-> DateStep]}

LoadCalc ==
    /\ loadState = "idle"
    /\ \E q \in CalcStockFeeds, fetched \in BOOLEAN :
          loadDataFromAPIs(fetched, CalcStock(q), CalcHome,
                           CalcPrices(11, 22), CalcPrices(13, 26))

FetchCalc ==
    /\ loadState = "loaded"
    /\ \E ticker \in Tickers :
          IF ticker \in DOMAIN customAssets
          THEN fetchPolygonData(ticker, TRUE, TRUE, <<>>)
          ELSE \E c \in {0 - 17, 17} :
                  fetchPolygonData(ticker, TRUE, TRUE, CalcPrices(c, 17))

CalcCall ==
    \E input \in CalcInputs, asset \in Assets, denominator \in Modes,
       dateRange \in CalcRanges :
        CallCalculateInvestmentReturn(input, asset, denominator, dateRange)

NextCalc == LoadCalc \/ FetchCalc \/ CalcCall

SpecCalc == Init /\ [][NextCalc]_vars

----------------------------------------------------------------------------
(* The session step by step: loadDataFromAPIs from one await to the next,
   the 'compareChanged' listener, and fetchPolygonData from its call to the
   arrival of the response *)

\* loadState while loadDataFromAPIs is suspended: at the await of the four
\* fetches, of stockResponse.json(), homeResponse.json(),
\* goldResponse.text() and btcResponse.text()
Awaiting == {"awaitFetch", "awaitStock", "awaitHome", "awaitGold", "awaitBtc"}

\* how a segment of loadDataFromAPIs ended
Segment(mode) == Res("loadDataFromAPIs", "", mode, NoPoint, 0, Null)

\* DOMContentLoaded: init shows the overlay and calls loadDataFromAPIs,
\* which sends the four fetches and suspends
init ==
    /\ loadState = "idle"
    /\ loadState' = "awaitFetch"
    /\ result' = Segment("await")
    /\ page' = showLoading(page)
    /\ UNCHANGED <<stockData, homeData, goldData, btcData, customAssets,
                   baseCPI, stats, network, debounced>>

\* what the catch of init does to the page when loadDataFromAPIs has
\* thrown: showError, and nothing about the overlay
initCatch(p) == showError(p)

\* Promise.all settles: the four responses, or a rejection that the catch
\* logs and rethrows
resumeFetch(fetched) ==
    /\ loadState = "awaitFetch"
    /\ loadState' = IF fetched THEN "awaitStock" ELSE "failed"
    /\ result' = Segment(IF fetched THEN "await" ELSE "rejected")
    /\ page' = IF fetched THEN page ELSE initCatch(page)
    /\ UNCHANGED <<stockData, homeData, goldData, btcData, customAssets,
                   baseCPI, stats, network, debounced>>

\* stockResponse.json() settles: stockData and baseCPI are assigned, and
\* homeResponse.json() is awaited
resumeStock(parsed, rawStock) ==
    /\ loadState = "awaitStock"
    /\ UNCHANGED <<homeData, goldData, btcData, customAssets, stats, network, debounced>>
    /\ IF ~parsed
       THEN /\ loadState' = "failed"
            /\ result' = Segment("rejected")
            /\ UNCHANGED <<stockData, baseCPI>>
       ELSE /\ stockData' = ingestStock(rawStock)
            /\ IF Len(ingestStock(rawStock)) = 0
               THEN /\ loadState' = "failed"
                    /\ result' = Segment("throw")
                    /\ UNCHANGED baseCPI
               ELSE /\ baseCPI' = latestCPI(ingestStock(rawStock))
                    /\ loadState' = "awaitHome"
                    /\ result' = Segment("await")
    /\ page' = IF parsed /\ Len(ingestStock(rawStock)) > 0
               THEN page ELSE initCatch(page)

\* homeResponse.json() settles: homeData is assigned
resumeHome(parsed, rawHome) ==
    /\ loadState = "awaitHome"
    /\ loadState' = IF parsed THEN "awaitGold" ELSE "failed"
    /\ homeData' = IF parsed THEN ingestHome(rawHome) ELSE homeData
    /\ result' = Segment(IF parsed THEN "await" ELSE "rejected")
    /\ page' = IF parsed THEN page ELSE initCatch(page)
    /\ UNCHANGED <<stockData, goldData, btcData, customAssets, baseCPI,
                   stats, network, debounced>>

\* goldResponse.text() settles: goldData is assigned
resumeGold(parsed, rawGold) ==
    /\ loadState = "awaitGold"
    /\ loadState' = IF parsed THEN "awaitBtc" ELSE "failed"
    /\ goldData' = IF parsed THEN ingestPrices(rawGold) ELSE goldData
    /\ result' = Segment(IF parsed THEN "await" ELSE "rejected")
    /\ page' = IF parsed THEN page ELSE initCatch(page)
    /\ UNCHANGED <<stockData, homeData, btcData, customAssets, baseCPI,
                   stats, network, debounced>>

\* init after loadDataFromAPIs has returned: loadConfigFromURL reads the
\* query string and hideLoading removes the overlay
initLoaded(p, query) ==
    hideLoading([p EXCEPT !.controls = loadConfigFromURL(@, query)])

\* btcResponse.text() settles: btcData is assigned and the statistics are
\* computed; an empty gold series throws before stats is assigned, an empty
\* home or Bitcoin series after it.  When the call returns, init goes on
\* with the query string of the page and sets up the listeners.
resumeBtc(parsed, rawBtc, query) ==
    /\ loadState = "awaitBtc"
    /\ UNCHANGED <<stockData, homeData, goldData, customAssets, baseCPI, network, debounced>>
    /\ IF ~parsed
       THEN /\ loadState' = "failed"
            /\ result' = Segment("rejected")
            /\ page' = initCatch(page)
            /\ UNCHANGED <<btcData, stats>>
       ELSE LET bd == ingestPrices(rawBtc)
            IN  /\ btcData' = bd
                /\ IF Len(goldData) = 0
                   THEN /\ loadState' = "failed"
                        /\ result' = Segment("throw")
                        /\ page' = initCatch(page)
                        /\ UNCHANGED stats
                   ELSE /\ stats' = loadStats(stockData, homeData, goldData,
                                              bd, baseCPI)
                        /\ IF Len(homeData) = 0 \/ Len(bd) = 0
                           THEN /\ loadState' = "failed"
                                /\ result' = Segment("throw")
                                /\ page' = initCatch(page)
                           ELSE /\ loadState' = "loaded"
                                /\ result' = Segment("")
                                /\ page' = initLoaded(page, query)

\* createDataset that pushes every point in range, null or not
createDatasetKeepingNull(asset, denominator, dateRange) ==
    IF asset \notin assetMetadata /\ asset \notin DOMAIN customAssets
    THEN [kind |-> "error", data |-> <<>>]
    ELSE LET filtered == filterByDateRange(getDataArrayForAsset(asset), dateRange)
             data == [i \in 1..Len(filtered) |->
                         [x |-> filtered[i].date,
                          y |-> getAssetValue(filtered[i], asset, denominator)]]
         IN  IF Len(data) = 0
             THEN [kind |-> "error", data |-> <<>>]
             ELSE [kind |-> "dataset", data |-> data]

\* createDataset(asset, denominator) with the range of getDateRange()
createDataset(asset, denominator, dateRange) ==
    IF asset \notin assetMetadata /\ asset \notin DOMAIN customAssets
    THEN [kind |-> "error", data |-> <<>>]
    ELSE LET filtered == filterByDateRange(getDataArrayForAsset(asset), dateRange)
             points == [i \in 1..Len(filtered) |->
                           [x |-> filtered[i].date,
                            y |-> getAssetValue(filtered[i], asset, denominator)]]
             Keep(point) == point.y # Null
             data == SelectSeq(points, Keep)
         IN  IF Len(data) = 0
             THEN [kind |-> "error", data |-> <<>>]
             ELSE [kind |-> "dataset", data |-> data]

\* what updateChartAndCalculator does when it runs in the load state
\* during.  compareMode, asset, denominator, input and dateRange are what
\* the page controls hold; in comparison mode there is one row.  started
\* tells whether createDataset was called, chart is the dataset and
\* calculator what autoCalculateReturn had calculated.
chartAndCalculator(during, compareMode, asset, denominator, input, dateRange) ==
    LET started == asset # Unset /\ (compareMode \/ denominator # Unset)
        calculated == /\ ~compareMode
                      /\ started
                      /\ input.k = "num"
                      /\ Lt(Num(0), input)
    IN  Res("updateChartAndCalculator", asset, denominator,
            [date |-> 0, during |-> during,
             started |-> started, compareMode |-> compareMode,
             input |-> input, range |-> dateRange],
            0,
            [chart |-> IF started
                       THEN createDataset(asset, denominator, dateRange)
                       ELSE Null,
             calculator |-> IF calculated
                            THEN calculateInvestmentReturn(
                                     input, asset, denominator, dateRange)
                            ELSE Null])

\* updateChartAndCalculator, the listener of 'compareChanged' on the
\* document, registered when the script is loaded: nothing in it looks at
\* how far loadDataFromAPIs has come
updateChartAndCalculator(compareMode, asset, denominator, input, dateRange) ==
    /\ loadState # "idle"
    /\ NoCallRecorded
    /\ result' = chartAndCalculator(loadState, compareMode, asset,
                                    denominator, input, dateRange)
    /\ UNCHANGED <<stockData, homeData, goldData, btcData, customAssets,
                   baseCPI, stats, loadState, network, page, debounced>>

\* the click on a suggestion shows the overlay and calls
\* fetchPolygonData(ticker), which runs up to its first await: a cached
\* ticker returns and a missing API key throws, and the handler removes the
\* overlay; otherwise the request is sent
fetchCall(ticker, apiKey) ==
    /\ loadState = "loaded"
    /\ UNCHANGED <<stockData, homeData, goldData, btcData, customAssets,
                   baseCPI, stats, loadState, debounced>>
    /\ IF ticker \in DOMAIN customAssets
       THEN /\ UNCHANGED network
            /\ page' = hideLoading(showLoading(page))
            /\ result' = Res("fetchPolygonData", ticker, "", NoPoint, 0, Num(1))
       ELSE IF ~apiKey
       THEN /\ UNCHANGED network
            /\ page' = hideLoading(showLoading(page))
            /\ result' = Res("fetchPolygonData", ticker, "throw", NoPoint, 0, Null)
       ELSE /\ network.requests[ticker] < MaxRequests
            /\ network' = RequestSent(network, ticker)
            /\ page' = showLoading(page)
            /\ result' = Res("fetchPolygonData", ticker, "await", NoPoint, 0, Null)

\* the response of a request arrives and response.json() settles: the call
\* that sent it caches the bars or throws, and the click handler removes
\* the overlay either way.  Nothing is assigned between the two awaits, so
\* they are one step.
fetchResume(ticker, responseOk, results) ==
    LET data == validBars(results)
    IN  /\ network.inflight[ticker] > 0
        /\ network' = ResponseArrived(network, ticker)
        /\ page' = hideLoading(page)
        /\ UNCHANGED <<stockData, homeData, goldData, btcData, baseCPI,
                       stats, loadState, debounced>>
        /\ IF responseFails(responseOk, results)
           THEN /\ UNCHANGED customAssets
                /\ result' = Res("fetchPolygonData", ticker, "throw",
                                 NoPoint, 0, Null)
           ELSE /\ customAssets' = (ticker :> data) @@ customAssets
                /\ result' = Res("fetchPolygonData", ticker, "", NoPoint, 0,
                                 Num(1))

\* the click on 'Add': addComparisonRow() appends a row with an empty asset
\* and a remove button unless there are 6 rows
maxRows == 6

addComparisonRow ==
    /\ loadState = "loaded"
    /\ page' = IF Len(page.controls.rows) >= maxRows THEN page
               ELSE [page EXCEPT !.controls.rows =
                         Append(@, [value |-> "", asset |-> Unset,
                                    removable |-> TRUE])]
    /\ result' = Res("addComparisonRow", "",
                     IF Len(page.controls.rows) >= maxRows THEN "alert" ELSE "",
                     NoPoint, 0, Null)
    /\ UNCHANGED <<stockData, homeData, goldData, btcData, customAssets,
                   baseCPI, stats, loadState, network, debounced>>

\* the click on the remove button of row i: the row is removed and the
\* 'compareChanged' event is dispatched, which runs
\* updateChartAndCalculator
removeComparisonRow(i, compareMode, asset, denominator, input, dateRange) ==
    /\ i \in 1..Len(page.controls.rows)
    /\ page.controls.rows[i].removable
    /\ page' = [page EXCEPT !.controls.rows =
                    SubSeq(@, 1, i - 1) \o SubSeq(@, i + 1, Len(@))]
    /\ result' = chartAndCalculator(loadState, compareMode, asset,
                                    denominator, input, dateRange)
    /\ UNCHANGED <<stockData, homeData, goldData, btcData, customAssets,
                   baseCPI, stats, loadState, network, debounced>>

----------------------------------------------------------------------------
(* The session on two observations of every series, each of which may also
   arrive empty or not at all *)

SessionStock ==
    <<[date |-> 0, sp500 |-> Num(2), cape |-> Num(3), cpi |-> Num(1)],
      [date |-> thirtyDays + DateStep, sp500 |-> Num(4), cape |-> Num(5),
       cpi |-> Num(2)]>>

\* what the page controls hold
SessionAssets == {Unset, "cape", "T"}

SessionDenominators == {Unset, "gold", "real", "T"}

SessionRanges == {[start |-> 0, end |-> thirtyDays + DateStep]}

InitStep == init

FetchStep == \E fetched \in BOOLEAN : resumeFetch(fetched)

StockStep ==
    \E parsed \in BOOLEAN, raw \in {SessionStock, <<>>} : resumeStock(parsed, raw)

HomeStep ==
    \E parsed \in BOOLEAN, raw \in {CalcHome, <<>>} : resumeHome(parsed, raw)

GoldStep ==
    \E parsed \in BOOLEAN, raw \in {CalcPrices(11, 22), <<>>} :
        resumeGold(parsed, raw)

\* most assets in the query string of the page
MaxUrlAssets == 7

\* a query string of comparison mode with that many assets
CompareQuery(count) ==
    [range |-> NoParam, start |-> NoParam, end |-> NoParam,
     event |-> NoParam, eventYears |-> NoParam, compare |-> "true",
     denom |-> "gold", assets |-> [i \in 1..count |-> "cape"],
     amount |-> NoParam]

\* the query strings of the page: none, and comparison mode with no asset,
\* with two, and with the most
SessionQueries ==
    {updateURL(Controls(Unset, Unset)), CompareQuery(0), CompareQuery(2),
     CompareQuery(MaxUrlAssets)}

BtcStep ==
    \E parsed \in BOOLEAN, raw \in {CalcPrices(13, 26), <<>>},
       query \in SessionQueries :
        resumeBtc(parsed, raw, query)

CompareChanged ==
    \E compareMode \in BOOLEAN, asset \in SessionAssets,
       denominator \in SessionDenominators, input \in CalcInputs,
       dateRange \in SessionRanges :
        updateChartAndCalculator(compareMode, asset, denominator, input, dateRange)

TickerCall ==
    \E ticker \in Tickers, apiKey \in BOOLEAN : fetchCall(ticker, apiKey)

\* bars without a close
NoClose ==
    <<[date |-> 0, price |-> Null],
      [date |-> thirtyDays + DateStep, price |-> NaN]>>

TickerResponse ==
    \E ticker \in Tickers, responseOk \in BOOLEAN,
       results \in {CalcPrices(17, 34), <<NoClose[1]>> \o CalcPrices(17, 34),
                    <<CalcPrices(17, 34)[2]>>, NoClose, <<>>} :
        fetchResume(ticker, responseOk, results)

AddRow == addComparisonRow

RemoveRow ==
    \E i \in 1..MaxUrlAssets, asset \in {Unset, "cape"},
       dateRange \in SessionRanges :
        removeComparisonRow(i, TRUE, asset, "gold", Num(2), dateRange)

NextSession ==
    \/ InitStep \/ FetchStep \/ StockStep \/ HomeStep \/ GoldStep \/ BtcStep
    \/ CompareChanged \/ TickerCall \/ TickerResponse
    \/ AddRow \/ RemoveRow

SpecSession == Init /\ [][NextSession]_vars

----------------------------------------------------------------------------
(* reduceResolution of preprocess.js.  A date is the number of its month,
   counted from January of year 0; the limits of the periods are the first
   of January of a year, so the day of the month plays no part. *)

\* longest series handed to reduceResolution
MaxReduceLen == 4

\* now.getFullYear()
NowYear == 52

tenYears == 10

fiftyYears == 50

MonthOf(year, month) == 12 * year + month

\* date.getFullYear()
getFullYear(date) == date \div 12

\* date.getMonth()
getMonth(date) == date % 12

\* the half-year of a month
halfYearOf(month) == month \div 6

\* Math.floor(date.getMonth() / 3)
quarterOf(month) == month \div 3

\* new Date(now.getFullYear() - 10, 0, 1)
tenYearsAgo == MonthOf(NowYear - tenYears, 0)

\* new Date(now.getFullYear() - 50, 0, 1)
fiftyYearsAgo == MonthOf(NowYear - fiftyYears, 0)

NoQuarter == [year |-> 0 - 1, quarter |-> 0 - 1]

\* the loop of reduceResolution from item i on, with what it has pushed so
\* far and the quarter and the year it has last kept
RECURSIVE reduceFrom(_, _, _, _, _)
reduceFrom(data, i, pushed, lastQuarter, lastYear) ==
    IF i > Len(data) THEN pushed
    ELSE LET item == data[i]
             date == item.date
             year == getFullYear(date)
             quarter == quarterOf(getMonth(date))
         IN  IF date >= tenYearsAgo
             THEN reduceFrom(data, i + 1, Append(pushed, item), lastQuarter,
                             lastYear)
             ELSE IF date >= fiftyYearsAgo
             THEN IF year # lastQuarter.year \/ quarter # lastQuarter.quarter
                  THEN reduceFrom(data, i + 1, Append(pushed, item),
                                  [year |-> year, quarter |-> quarter],
                                  lastYear)
                  ELSE reduceFrom(data, i + 1, pushed, lastQuarter, lastYear)
             ELSE IF year # lastYear /\ getMonth(date) = 0
                  THEN reduceFrom(data, i + 1, Append(pushed, item),
                                  lastQuarter, year)
                  ELSE reduceFrom(data, i + 1, pushed, lastQuarter, lastYear)

reduceResolution(data) == reduceFrom(data, 1, <<>>, NoQuarter, 0 - 1)

\* the months of the series: two years of the yearly period, the second of
\* them without an observation in January, the first year of the quarterly
\* period and its last month, and the first months of the monthly period
ReduceMonths ==
    {MonthOf(NowYear - fiftyYears - 2, 0), MonthOf(NowYear - fiftyYears - 2, 1),
     MonthOf(NowYear - fiftyYears - 1, 5), MonthOf(NowYear - fiftyYears - 1, 11),
     MonthOf(NowYear - fiftyYears, 0), MonthOf(NowYear - fiftyYears, 1),
     MonthOf(NowYear - fiftyYears, 3),
     MonthOf(NowYear - tenYears - 1, 11),
     MonthOf(NowYear - tenYears, 0), MonthOf(NowYear - tenYears, 1)}

\* series sorted by date, as processStockData, processHomeData and
\* processGoldData hand them over; several observations may have one month.
\* seq tells the observations apart.
ReduceInputs ==
    {[i \in 1..Len(q) |-> [date |-> q[i], seq |-> i]] :
        q \in {m \in SeqsUpTo(ReduceMonths, MaxReduceLen) :
                  \A i \in 1..Len(m) - 1 : m[i] <= m[i + 1]}}

CallReduceResolution ==
    /\ loadState = "idle"
    /\ result.op = "none"
    /\ \E data \in ReduceInputs :
          result' = Res("reduceResolution", "", "", [date |-> 0, data |-> data],
                        0, reduceResolution(data))
    /\ UNCHANGED <<stockData, homeData, goldData, btcData, customAssets,
                   baseCPI, stats, loadState, network, page, debounced>>

NextReduce == CallReduceResolution

SpecReduce == Init /\ [][NextReduce]_vars

----------------------------------------------------------------------------
(* The URL of the page: updateURL on the controls of a configured page,
   and loadConfigFromURL with what it wrote on a page as it is served *)

\* an input after a suggestion was chosen: the name is shown, the code is
\* in data-asset
Chosen(asset) == [value |-> getAssetName(asset), asset |-> asset]

\* the date controls: the default range, a range by years back, custom
\* years with and without the last year, and an event
UrlDates ==
    {[dateRange |-> "modern", startYear |-> "", endYear |-> "",
      eventPeriod |-> "1929-crash", eventYears |-> ""],
     [dateRange |-> "50", startYear |-> "", endYear |-> "",
      eventPeriod |-> "1929-crash", eventYears |-> ""],
     [dateRange |-> "custom", startYear |-> "1900", endYear |-> "2000",
      eventPeriod |-> "1929-crash", eventYears |-> ""],
     [dateRange |-> "custom", startYear |-> "1900", endYear |-> "",
      eventPeriod |-> "1929-crash", eventYears |-> ""],
     [dateRange |-> "event", startYear |-> "", endYear |-> "",
      eventPeriod |-> "dotcom", eventYears |-> "5"]}

UrlAssets == {"cape", "gold", "T"}

UrlDenominators == {"gold", "real"}

\* most comparison rows of a configuration
MaxRows == 2

WithDates(c, d) ==
    [c EXCEPT !.dateRange = d.dateRange, !.startYear = d.startYear,
              !.endYear = d.endYear, !.eventPeriod = d.eventPeriod,
              !.eventYears = d.eventYears]

\* configurations in single mode and in comparison mode
UrlConfigs ==
    {[WithDates(Controls(Unset, Unset), d)
         EXCEPT !.asset1 = Chosen(asset),
                !.denominator1 = Chosen(denominator),
                !.investmentAmount = amount] :
        d \in UrlDates, asset \in UrlAssets, denominator \in UrlDenominators,
        amount \in {"", "100"}}
    \cup
    {[WithDates(Controls(Unset, Unset), d)
         EXCEPT !.compareMode = TRUE,
                !.compareDenominator = denominator,
                !.rows = [i \in 1..Len(assets) |->
                             [value |-> getAssetName(assets[i]),
                              asset |-> assets[i], removable |-> i > 1]]] :
        d \in UrlDates, denominator \in UrlDenominators,
        assets \in SeqsUpTo(UrlAssets, MaxRows) \ {<<>>}}

\* the page as it is served, whatever its inputs carry in data-asset
FreshControls ==
    {Controls(asset, denominator) :
        asset \in {Unset, "cape"}, denominator \in {Unset, "gold"}}

CallLoadConfigFromURL ==
    /\ loadState = "idle"
    /\ result.op = "none"
    /\ \E config \in UrlConfigs, fresh \in FreshControls :
          result' = Res("loadConfigFromURL", "", "",
                        [date |-> 0, config |-> config, fresh |-> fresh,
                         query |-> updateURL(config)],
                        0, loadConfigFromURL(fresh, updateURL(config)))
    /\ UNCHANGED <<stockData, homeData, goldData, btcData, customAssets,
                   baseCPI, stats, loadState, network, page, debounced>>

NextUrl == CallLoadConfigFromURL

SpecUrl == Init /\ [][NextUrl]_vars

----------------------------------------------------------------------------
(* debounce(func, wait): the function it returns, its timer and the clock.
   debounced.calls and debounced.runs list the calls of the returned
   function and the runs of func, each with its time; a run also tells
   after how many calls it came.  A timer is run at its time or later,
   when the event loop comes to it. *)

\* the delay of the debounced function, in ticks of the clock
wait == 2

\* the clock stops here
MaxTime == 6

\* calls of the debounced function in a session
MaxCalls == 3

\* the arguments of a call
Args == {1, 2}

\* a debounced function that leaves a timer that is set alone
executedFunctionKeepingTimer(args) ==
    /\ Len(debounced.calls) < MaxCalls
    /\ debounced' =
          [debounced EXCEPT
              !.calls = Append(@, [at |-> debounced.now, args |-> args]),
              !.timeout = IF debounced.timeout # NoTimeout THEN @
                          ELSE [due |-> debounced.now + wait, args |-> args,
                                call |-> Len(debounced.calls) + 1]]
    /\ UNCHANGED <<stockData, homeData, goldData, btcData, customAssets,
                   baseCPI, stats, loadState, result, network, page>>

\* executedFunction(...args): clearTimeout(timeout) and
\* timeout = setTimeout(later, wait)
executedFunction(args) ==
    /\ Len(debounced.calls) < MaxCalls
    /\ debounced' =
          [debounced EXCEPT
              !.calls = Append(@, [at |-> debounced.now, args |-> args]),
              !.timeout = [due |-> debounced.now + wait, args |-> args,
                           call |-> Len(debounced.calls) + 1]]
    /\ UNCHANGED <<stockData, homeData, goldData, btcData, customAssets,
                   baseCPI, stats, loadState, result, network, page>>

\* later(): the timer is run, not before its time: clearTimeout(timeout)
\* and func(...args)
later ==
    /\ debounced.timeout # NoTimeout
    /\ debounced.now >= debounced.timeout.due
    /\ debounced' =
          [debounced EXCEPT
              !.runs = Append(@, [at |-> debounced.now,
                                  args |-> debounced.timeout.args,
                                  after |-> Len(debounced.calls)]),
              !.timeout = NoTimeout]
    /\ UNCHANGED <<stockData, homeData, goldData, btcData, customAssets,
                   baseCPI, stats, loadState, result, network, page>>

\* time passes
Tick ==
    /\ debounced.now < MaxTime
    /\ debounced' = [debounced EXCEPT !.now = @ + 1]
    /\ UNCHANGED <<stockData, homeData, goldData, btcData, customAssets,
                   baseCPI, stats, loadState, result, network, page>>

DebouncedCall == \E args \in Args : executedFunction(args)

NextDebounce == DebouncedCall \/ later \/ Tick

SpecDebounce == Init /\ [][NextDebounce]_vars

----------------------------------------------------------------------------
(* Claims about the lookups *)

Dist(data, target, j) == Abs(target - data[j].date)

\* j is an element of data nearest to target and, among the nearest, of the
\* earliest date
IsNearest(data, target, j) ==
    /\ j \in 1..Len(data)
    /\ \A k \in 1..Len(data) : Dist(data, target, j) <= Dist(data, target, k)
    /\ \A k \in 1..Len(data) :
          Dist(data, target, k) = Dist(data, target, j)
              => data[j].date <= data[k].date

ReturnsNearest(data, f) ==
    Len(data) > 0 =>
        \E j \in 1..Len(data) :
            IsNearest(data, result.target, j) /\ result.val = data[j][f]

PlainLookupsNearest ==
    /\ result.op = "getGoldPriceForDate" => ReturnsNearest(goldData, "price")
    /\ result.op = "getHomePriceForDate" => ReturnsNearest(homeData, "realPrice")
    /\ result.op = "getSP500ForDate" => ReturnsNearest(stockData, "sp500")
    /\ result.op = "getCapeForDate" => ReturnsNearest(stockData, "cape")
    /\ result.op = "getGoldPrice" => ReturnsNearest(goldData, "price")
    /\ result.op = "getCPI" => ReturnsNearest(stockData, "cpi")

\* C1 as stated: every nearest-date lookup, getCPIForDate among them, returns
\* the value of an observation nearest to the target, the earliest of the
\* nearest ones.
C1_AllLookupsReturnNearest ==
    /\ PlainLookupsNearest
    /\ result.op = "getCPIForDate" => ReturnsNearest(stockData, "cpi")

\* C1 amended: the same for the six plain lookups; getCPIForDate returns the
\* cpi of that observation unless it is NaN or 0, and baseCPI then.
C1_LookupsReturnNearest ==
    /\ PlainLookupsNearest
    /\ result.op = "getCPIForDate" /\ Len(stockData) > 0 =>
          \E j \in 1..Len(stockData) :
              /\ IsNearest(stockData, result.target, j)
              /\ result.val = IF Truthy(stockData[j].cpi)
                              THEN stockData[j].cpi ELSE baseCPI

\* the gold lookup has answered for a target just between two observations
\* of different prices, with the earlier one's price
C1_Witness ==
    /\ result.op = "getGoldPriceForDate"
    /\ \E i, j \in 1..Len(goldData) :
          /\ goldData[i].date < goldData[j].date
          /\ Dist(goldData, result.target, i) = Dist(goldData, result.target, j)
          /\ goldData[i].price # goldData[j].price
          /\ result.val = goldData[i].price

BoundedLookup(data) ==
    /\ result.target < data[1].date - 30 => result.val = Null
    /\ result.target >= data[1].date - 30 =>
          /\ \E j \in 1..Len(data) :
                IsNearest(data, result.target, j) /\ result.val = data[j].price
          /\ result.target < data[1].date => result.val = data[1].price

\* C2: the Bitcoin lookup and the lookup of a cached ticker return null for a
\* target more than 30 days before the first observation, and otherwise the
\* price of the nearest observation, the first one for a target before it.
C2_BoundedHistoryCutoff ==
    /\ result.op = "getBitcoinPriceForDate" /\ Len(btcData) > 0 =>
          BoundedLookup(btcData)
    /\ result.op = "getCustomAssetPriceForDate"
          /\ result.asset \in DOMAIN customAssets =>
          BoundedLookup(customAssets[result.asset])

\* the Bitcoin lookup has answered for a target exactly 30 days before a
\* first observation that is not the only one
C2_Witness ==
    /\ result.op = "getBitcoinPriceForDate"
    /\ Len(btcData) > 1
    /\ result.target = btcData[1].date - 30
    /\ result.val = btcData[1].price

----------------------------------------------------------------------------
(* Claims about getAssetValue *)

IsValuation == result.op = "getAssetValue"

RatioMode == result.mode \notin {"real", "nominal"}

RealNative == {"cape", "home", "sp500"}

\* the field of an observation that holds the asset's raw value
RawOf(pt, asset) ==
    IF asset = "cape" THEN Field(pt, "cape")
    ELSE IF asset = "home" THEN Field(pt, "realPrice")
    ELSE IF asset = "sp500" THEN Field(pt, "sp500")
    ELSE Field(pt, "price")

Positive(x) == Lt(Num(0), x)

\* C3: getAssetValue returns null whenever the raw field of the asset is
\* absent, zero or negative, for every asset and every denominator mode.
C3_NullWhenRawNotPositive ==
    IsValuation /\ ~Positive(RawOf(result.pt, result.asset))
        => result.val = Null

\* C4: with denominator 'nominal', gold, Bitcoin and every custom ticker are
\* valued at exactly the raw price of the observation, when it is positive.
C4_NominalIsRawPrice ==
    /\ IsValuation
    /\ result.asset \notin RealNative
    /\ result.mode = "nominal"
    /\ Positive(result.pt.price)
    => result.val = result.pt.price

\* the price level the conversions of a date use
priceLevelAt(date) == getCPIForDate(date)

\* the real value of the asset at its observation
AssetReal(pt, asset) ==
    IF asset \in RealNative THEN RawOf(pt, asset)
    ELSE Mul(pt.price, Div(baseCPI, priceLevelAt(pt.date)))

\* the real value of the denominator asset at a date
DenominatorReal(mode, date) ==
    IF mode = "gold"
    THEN Mul(getGoldPriceForDate(date), Div(baseCPI, priceLevelAt(date)))
    ELSE IF mode = "btc"
    THEN Mul(getBitcoinPriceForDate(date), Div(baseCPI, priceLevelAt(date)))
    ELSE IF mode = "home" THEN getHomePriceForDate(date)
    ELSE IF mode = "sp500" THEN getSP500ForDate(date)
    ELSE IF mode = "cape" THEN getCapeForDate(date)
    ELSE IF mode \in DOMAIN customAssets
    THEN Mul(getCustomAssetPriceForDate(mode, date),
             Div(baseCPI, priceLevelAt(date)))
    ELSE Null

\* C5: in ratio mode the value is the asset's real value divided by the
\* denominator's real value (nearest-date price times baseCPI / price level
\* for gold, Bitcoin and tickers, the stored value for home, S&P 500 and
\* CAPE), and null only where that denominator or the asset's own price is
\* missing or zero.
C5_RatioOfRealValues ==
    IsValuation /\ RatioMode =>
        IF \/ ~Truthy(DenominatorReal(result.mode, result.pt.date))
           \/ result.asset \notin RealNative /\ ~Truthy(result.pt.price)
        THEN result.val = Null
        ELSE result.val = Div(AssetReal(result.pt, result.asset),
                              DenominatorReal(result.mode, result.pt.date))

\* home has been valued in gold at a date whose price level is not the base
\* level, so the real and the nominal gold price differ
C5_Witness ==
    /\ IsValuation
    /\ result.asset = "home"
    /\ result.mode = "gold"
    /\ result.val # Null
    /\ IsFiniteNum(Div(baseCPI, priceLevelAt(result.pt.date)))
    /\ Div(baseCPI, priceLevelAt(result.pt.date)) # Num(1)

\* C6: after a successful load, getAssetValue in ratio mode yields null when
\* the denominator is missing or zero, and otherwise null or a finite
\* number, never NaN or Infinity.
C6_RatioNullOrFinite ==
    loadState = "loaded" /\ IsValuation /\ RatioMode =>
        /\ ~Truthy(DenominatorReal(result.mode, result.pt.date))
              => result.val = Null
        /\ result.val = Null \/ IsFiniteNum(result.val)

\* the observations of the real-native assets
RealNativePoints ==
    {stockData[i] : i \in 1..Len(stockData)}
        \cup {homeData[i] : i \in 1..Len(homeData)}

\* C7: a price converted to real, as for gold, Bitcoin and tickers, and back
\* to nominal, as for a real-native observation of the same date, is the
\* price again.
C7_RoundTrip ==
    /\ IsValuation
    /\ result.asset \notin RealNative
    /\ result.mode = "real"
    /\ result.val # Null
    => \A p \in RealNativePoints :
          p.date = result.pt.date => nominalValue(result.val, p) = result.pt.price

\* C8: for two real-valued assets and observations of them on one date, the
\* value of the one in the other times the value of the other in the one
\* is 1, when neither is null.
C8_RatioSymmetry ==
    /\ IsValuation
    /\ result.asset \in RealNative
    /\ result.mode \in RealNative \ {result.asset}
    /\ result.val # Null
    => \A i \in 1..Len(getDataArrayForAsset(result.mode)) :
          LET obsB == getDataArrayForAsset(result.mode)[i]
              back == getAssetValue(obsB, result.mode, result.asset)
          IN  obsB.date = result.pt.date /\ back # Null
                  => Mul(result.val, back) = Num(1)

----------------------------------------------------------------------------
(* Claims about the statistics *)

\* loadDataFromAPIs has assigned stats
AppStats == stats # Null

\* computeStats has returned a snapshot
ScriptStats ==
    result.op = "computeStats" /\ result.val # Null /\ result.val # Thrown

\* the populations the two percentiles are taken over
AppRatios == historicalRatios(stockData, goldData, baseCPI)

ScriptRatios == allRatios(stockData, goldData)

StrictlyBelow(ratios, current) ==
    Cardinality({i \in 1..Len(ratios) : Lt(ratios[i], current)})

PercentileByCount(ratios, current) ==
    Div(Num(100 * StrictlyBelow(ratios, current)), Num(Len(ratios)))

\* C9: the percentile of the app and of the build script is 100 times the
\* number of historical ratios strictly less than the current ratio over
\* the number of historical ratios; ratios 1, 2, 3, 4, 5 with current ratio
\* 5 give 80, and a current ratio equal to the least ratio gives 0.
C9_PercentileCountsStrictlyLess ==
    /\ AppStats =>
          /\ stats.percentile = PercentileByCount(AppRatios, stats.currentRatio)
          /\ AppRatios = <<Num(1), Num(2), Num(3), Num(4), Num(5)>>
                /\ stats.currentRatio = Num(5)
                => stats.percentile = Num(80)
          /\ AppRatios # <<>> /\ stats.currentRatio = AppRatios[1]
                => stats.percentile = Num(0)
    /\ ScriptStats =>
          /\ result.val.percentile =
                PercentileByCount(ScriptRatios, result.val.currentRatio)
          /\ ScriptRatios # <<>> /\ result.val.currentRatio = ScriptRatios[1]
                => result.val.percentile = Num(0)

\* the app has taken the percentile of current ratio 5 over 1, 2, 3, 4, 5
C9_Witness ==
    /\ AppStats
    /\ AppRatios = <<Num(1), Num(2), Num(3), Num(4), Num(5)>>
    /\ stats.currentRatio = Num(5)
    /\ stats.percentile = Num(80)

\* C10: for non-empty stock and gold series the percentile is strictly
\* below 100, because the population holds the current ratio itself.
C10_PercentileBelow100 ==
    /\ AppStats => Lt(stats.percentile, Num(100))
    /\ ScriptStats => Lt(result.val.percentile, Num(100))

\* the real gold value at a date, by the lookups of the app
AppRealGoldAt(date) ==
    Mul(getGoldPriceForDate(date), Div(baseCPI, getCPIForDate(date)))

\* the real gold value at a date, by the lookups of the build script
ScriptRealGoldAt(date) ==
    Mul(getGoldPrice(goldData, date),
        Div(Last(stockData).cpi, getCPI(stockData, date)))

\* C11: currentGold is the real gold value at the date of the latest stock
\* observation (the nearest-date gold price, converted to real terms), and
\* currentRatio is the latest CAPE divided by it.
C11_CurrentGoldAtLatestStockDate ==
    /\ AppStats =>
          /\ stats.currentGold = AppRealGoldAt(Last(stockData).date)
          /\ stats.currentRatio =
                Div(Last(stockData).cape, AppRealGoldAt(Last(stockData).date))
    /\ ScriptStats =>
          /\ result.val.currentGold = ScriptRealGoldAt(Last(stockData).date)
          /\ result.val.currentRatio =
                Div(Last(stockData).cape, ScriptRealGoldAt(Last(stockData).date))

\* s and t hold the same values the same number of times
SameValues(s, t) ==
    /\ Len(s) = Len(t)
    /\ \A i \in 1..Len(s) :
          Cardinality({j \in 1..Len(s) : s[j] = s[i]})
              = Cardinality({j \in 1..Len(t) : t[j] = s[i]})

IsAscending(s) == \A i, j \in 1..Len(s) : i < j => ~Lt(s[j], s[i])

\* CAPE over the real gold value, for the stock observations whose gold
\* lookup succeeds
AppExpectedRatios ==
    LET Found(stock) == Truthy(getGoldPriceForDate(stock.date))
        kept == SelectSeq(stockData, Found)
    IN  [i \in 1..Len(kept) |-> Div(kept[i].cape, AppRealGoldAt(kept[i].date))]

ScriptExpectedRatios ==
    LET Found(stock) == Truthy(getGoldPrice(goldData, stock.date))
        kept == SelectSeq(stockData, Found)
    IN  [i \in 1..Len(kept) |->
            Div(kept[i].cape, ScriptRealGoldAt(kept[i].date))]

\* C12: the population holds, for every stock observation whose gold lookup
\* succeeds, CAPE over the real gold value at its date and nothing else, in
\* ascending order.
C12_PopulationOfRealGoldRatios ==
    /\ AppStats =>
          SameValues(AppRatios, AppExpectedRatios) /\ IsAscending(AppRatios)
    /\ ScriptStats =>
          SameValues(ScriptRatios, ScriptExpectedRatios)
              /\ IsAscending(ScriptRatios)

\* C13: with an empty stock or gold series after ingestion the statistics
\* are unavailable (stats null, computeStats null) and nothing is thrown.
C13_EmptySeriesUnavailable ==
    /\ result.op = "loadDataFromAPIs" /\ result.mode # "rejected"
          /\ (Len(stockData) = 0 \/ Len(goldData) = 0)
          => stats = Null /\ result.mode # "throw"
    /\ result.op = "computeStats"
          /\ (Len(stockData) = 0 \/ Len(goldData) = 0)
          => result.val = Null

----------------------------------------------------------------------------
(* Claims about the return calculator *)

IsCalc == result.op = "calculateInvestmentReturn"

Produced == IsCalc /\ result.val.kind = "results"

CalcSeries == getDataArrayForAsset(result.asset)

\* the observations of the asset within the range, bounds included
CalcInRange ==
    {i \in 1..Len(CalcSeries) :
        /\ result.pt.range.start <= CalcSeries[i].date
        /\ CalcSeries[i].date <= result.pt.range.end}

\* the call got as far as the filter: the range is not empty and the asset
\* has a series
CalcFiltered ==
    /\ IsCalc
    /\ result.pt.range.start < result.pt.range.end
    /\ result.asset \in assetMetadata \cup DOMAIN customAssets

CalcFirst == CalcSeries[CHOOSE i \in CalcInRange : \A j \in CalcInRange : i <= j]

CalcLast == CalcSeries[CHOOSE i \in CalcInRange : \A j \in CalcInRange : j <= i]

\* C14: the calculator keeps the observations with start <= date <= end;
\* with fewer than 2 of them it alerts and displays no result, with 2 or
\* more it goes on to the first and the last of them.
C14_InclusiveRangeNeedsTwoPoints ==
    /\ IsCalc /\ Cardinality(CalcInRange) < 2 => result.val.kind = "alert"
    /\ CalcFiltered =>
          /\ Cardinality(CalcInRange) < 2
                <=> result.val = Alert("Not enough data points")
          /\ Produced =>
                /\ result.val.startDate = CalcFirst.date
                /\ result.val.endDate = CalcLast.date

\* one observation lies in the range, on its lower bound, and the
\* calculator has alerted
C14_Witness ==
    /\ CalcFiltered
    /\ Cardinality(CalcInRange) = 1
    /\ \E i \in CalcInRange : CalcSeries[i].date = result.pt.range.start
    /\ result.val = Alert("Not enough data points")

CalcStartValue == getAssetValue(CalcFirst, result.asset, result.mode)

CalcEndValue == getAssetValue(CalcLast, result.asset, result.mode)

PositiveFinite(x) == IsFiniteNum(x) /\ Lt(Num(0), x)

\* C15: with two observations in the range a result is displayed exactly
\* when the start and the end value are positive finite numbers; otherwise
\* the calculator alerts 'invalid data'.
C15_ResultOnlyForPositiveFinite ==
    CalcFiltered /\ Cardinality(CalcInRange) >= 2 =>
        IF PositiveFinite(CalcStartValue) /\ PositiveFinite(CalcEndValue)
        THEN Produced
        ELSE result.val = Alert("Invalid data for the selected dates")

CalcAmount == Or(result.pt.input, Num(0))

CalcMultiplier == Div(CalcEndValue, CalcStartValue)

\* C16: with a positive principal, finalValue = principal * (end value /
\* start value), totalReturn = finalValue - principal and returnPercentage
\* = (multiplier - 1) * 100.
C16_ReturnFigures ==
    Produced /\ Lt(Num(0), CalcAmount) =>
        /\ result.val.finalValue = Mul(CalcAmount, CalcMultiplier)
        /\ result.val.totalReturn = Sub(result.val.finalValue, CalcAmount)
        /\ result.val.returnPercentage =
              Mul(Sub(CalcMultiplier, Num(1)), Num(100))

\* a result for a principal of 2 and a multiplier that is finite and not 1
C16_Witness ==
    /\ Produced
    /\ CalcAmount = Num(2)
    /\ IsFiniteNum(CalcMultiplier)
    /\ CalcMultiplier # Num(1)
    /\ result.val.totalReturn # Num(0)

\* the code's test of the two values passes
CalcValuesAccepted ==
    /\ Truthy(CalcStartValue) /\ Truthy(CalcEndValue)
    /\ ~Le(CalcStartValue, Num(0)) /\ ~Le(CalcEndValue, Num(0))

\* C17: when the first and the last observation of the range carry the same
\* date (no time elapsed), a result is still displayed and its annualized
\* return is exactly 0.
C17_ZeroYearsAnnualizedZero ==
    /\ CalcFiltered
    /\ Cardinality(CalcInRange) >= 2
    /\ CalcLast.date <= CalcFirst.date
    /\ CalcValuesAccepted
    => Produced /\ result.val.annualizedReturn = Num(0)

\* two observations of one date have been the range, with a multiplier
\* that is not 1
C17_Witness ==
    /\ Produced
    /\ Cardinality(CalcInRange) >= 2
    /\ result.val.startDate = result.val.endDate
    /\ CalcMultiplier # Num(1)
    /\ result.val.annualizedReturn = Num(0)

----------------------------------------------------------------------------
(* Claims about the session *)

\* the most recent observation of a series the ingestion has sorted
MostRecent(data) == data[Len(data)]

\* C18: baseCPI is assigned once in a session, during ingestion, to the cpi
\* of the most recent stock observation, and no later operation (a chart
\* update with its return calculation, a ticker fetch) changes it: a step
\* changes baseCPI only from its initial null, while the stock response is
\* awaited, to that cpi, and once the data are loaded it holds that cpi
C18_BaseCPIAssignedOnce ==
    /\ [](loadState = "loaded" =>
              /\ baseCPI # Null
              /\ baseCPI = MostRecent(stockData).cpi)
    /\ [][baseCPI' # baseCPI =>
              /\ baseCPI = Null
              /\ loadState = "awaitStock"
              /\ Len(stockData') > 0
              /\ \A i \in 1..Len(stockData') :
                    stockData'[i].date <= MostRecent(stockData').date
              /\ baseCPI' = MostRecent(stockData').cpi]_vars

\* a chart update with a return calculation after a ticker was fetched,
\* with baseCPI still the cpi of the most recent of two stock observations
C18_Witness ==
    /\ loadState = "loaded"
    /\ result.op = "updateChartAndCalculator"
    /\ result.val.calculator # Null
    /\ "T" \in DOMAIN customAssets
    /\ Len(stockData) = 2
    /\ stockData[1].cpi # stockData[2].cpi
    /\ baseCPI = stockData[2].cpi

\* C19: ingestion barrier.  Whatever the interleaving of the await points
\* of loadDataFromAPIs with the 'compareChanged' listener, no valuation
\* (createDataset and, after it, calculateInvestmentReturn) starts and no
\* statistics are computed while loadDataFromAPIs is still suspended with
\* series left to ingest
C19_IngestionBarrier ==
    /\ loadState \in Awaiting => stats = Null
    /\ (result.op = "updateChartAndCalculator" /\ result.pt.started) =>
           result.pt.during \notin Awaiting

\* C20: for every ticker at most one request is sent to Polygon.io in a
\* session, whatever the sequence and the overlap of the calls of
\* fetchPolygonData for it, and once the ticker is cached no step sends a
\* request for it
C20_AtMostOneRequest ==
    /\ [](\A t \in Tickers : network.requests[t] <= 1)
    /\ [][\A t \in Tickers :
              t \in DOMAIN customAssets =>
                  network'.requests[t] = network.requests[t]]_vars

\* C30: a call of fetchPolygonData that fails (no API key, a status that is
\* not OK, no results, no bar with a close) throws and leaves customAssets
\* as it was, and every cached ticker has at least one observation, each of
\* them with a close
C30_FailedTickerNotCached ==
    /\ [](\A t \in DOMAIN customAssets :
              /\ Len(customAssets[t]) >= 1
              /\ \A i \in 1..Len(customAssets[t]) :
                    /\ customAssets[t][i].price # Null
                    /\ ~IsNaN(customAssets[t][i].price))
    /\ [][(result'.op = "fetchPolygonData" /\ result'.mode = "throw") =>
              customAssets' = customAssets]_vars

\* a request for the ticker was answered, the call threw and the ticker is
\* not cached
C30_Witness ==
    /\ result.op = "fetchPolygonData"
    /\ result.mode = "throw"
    /\ network.requests["T"] >= 1
    /\ network.inflight["T"] = 0
    /\ "T" \notin DOMAIN customAssets

----------------------------------------------------------------------------
(* Claims about the price level of a date *)

\* the cpi is missing: NaN or 0
CpiMissing(cpi) == IsNaN(cpi) \/ cpi = Num(0)

\* C25: getCPIForDate returns the cpi of the stock observation nearest to
\* the date; when the stock series is empty or that cpi is missing (NaN or
\* 0) it returns baseCPI, and the conversion factor baseCPI / cpi of such a
\* date is then 1
C25_FallbackIsNoOp ==
    result.op = "getCPIForDate" =>
        IF Len(stockData) = 0
        THEN /\ result.val = baseCPI
             /\ Div(baseCPI, result.val) = Num(1)
        ELSE \E j \in 1..Len(stockData) :
                /\ IsNearest(stockData, result.target, j)
                /\ IF CpiMissing(stockData[j].cpi)
                   THEN /\ result.val = baseCPI
                        /\ Div(baseCPI, result.val) = Num(1)
                   ELSE result.val = stockData[j].cpi

----------------------------------------------------------------------------
(* Claims about reduceResolution *)

IsReduce == result.op = "reduceResolution"

ReduceInput == result.pt.data

ReduceOutput == result.val

\* out is a subsequence of data, in the order of data
IsSubsequenceOf(out, data) ==
    /\ \A k \in 1..Len(out) : out[k] = data[out[k].seq]
    /\ \A k \in 1..Len(out) - 1 : out[k].seq < out[k + 1].seq

SameQuarter(a, b) ==
    /\ a \div 12 = b \div 12
    /\ (a % 12) \div 3 = (b % 12) \div 3

\* observation i of data is the first of its year and quarter
FirstOfQuarter(data, i) ==
    \A j \in 1..(i - 1) : ~SameQuarter(data[j].date, data[i].date)

\* C23: of a series sorted by date reduceResolution returns a subsequence,
\* in the same order, that holds every observation of the last 10 years
\* and, of the observations between 10 and 50 years old, exactly the first
\* one of each year and quarter
C23_MonthlyAndQuarterly ==
    IsReduce =>
        /\ IsSubsequenceOf(ReduceOutput, ReduceInput)
        /\ \A i \in 1..Len(ReduceInput) :
              LET item == ReduceInput[i]
                  kept == \E k \in 1..Len(ReduceOutput) : ReduceOutput[k] = item
              IN  /\ item.date >= tenYearsAgo => kept
                  /\ (item.date >= fiftyYearsAgo /\ item.date < tenYearsAgo) =>
                        (kept <=> FirstOfQuarter(ReduceInput, i))

\* two observations of one quarter and one of the next, between 10 and 50
\* years old, and an observation of the last 10 years
C23_Witness ==
    /\ IsReduce
    /\ Len(ReduceInput) = 4
    /\ ReduceInput[1].date >= fiftyYearsAgo
    /\ SameQuarter(ReduceInput[1].date, ReduceInput[2].date)
    /\ ~SameQuarter(ReduceInput[2].date, ReduceInput[3].date)
    /\ ReduceInput[3].date < tenYearsAgo
    /\ ReduceInput[4].date >= tenYearsAgo
    /\ Len(ReduceOutput) = 3

\* C24: of the observations older than 50 years the output holds exactly
\* one for every calendar year that has an observation in the input
C24_YearlyBeyondFiftyYears ==
    IsReduce =>
        \A i \in 1..Len(ReduceInput) :
            ReduceInput[i].date < fiftyYearsAgo =>
                Cardinality({k \in 1..Len(ReduceOutput) :
                                ReduceOutput[k].date \div 12
                                    = ReduceInput[i].date \div 12}) = 1

----------------------------------------------------------------------------
(* Claims about the page *)

\* C21: a failed ingestion of a built-in source is terminal and surfaced:
\* init has shown the error message, the load is never taken up again, and
\* no chart or return valuation starts and no statistics are computed in
\* the failed session
C21_IngestionFailureTerminal ==
    /\ [](loadState = "failed" => page.error)
    /\ []((result.op = "updateChartAndCalculator" /\ result.pt.started) =>
              result.pt.during # "failed")
    /\ [][loadState = "failed" =>
              /\ loadState' = "failed"
              /\ stats' = stats
              /\ <<stockData, homeData, goldData, btcData>>'
                    = <<stockData, homeData, goldData, btcData>>]_vars

\* C26: whatever the sequence of addComparisonRow, removals of rows and
\* loadConfigFromURL, there are never more than 6 comparison rows
C26_AtMostSixRows == Len(page.controls.rows) <= 6

\* C27: once init has finished, with loadDataFromAPIs returned or thrown,
\* and no fetch of a ticker is under way, the loading overlay is removed
C27_OverlayRemoved ==
    (/\ loadState \in {"loaded", "failed"}
     /\ \A t \in Tickers : network.inflight[t] = 0) => ~page.overlay

IsUrl == result.op = "loadConfigFromURL"

RowAssets(c) == [i \in 1..Len(c.rows) |-> c.rows[i].asset]

SameMode(a, b) == a.compareMode = b.compareMode

SameAmount(a, b) == ~a.compareMode => a.investmentAmount = b.investmentAmount

SameCodes(a, b) ==
    IF a.compareMode
    THEN /\ RowAssets(a) = RowAssets(b)
         /\ a.compareDenominator = b.compareDenominator
    ELSE /\ a.asset1.asset = b.asset1.asset
         /\ a.denominator1.asset = b.denominator1.asset

SameDates(a, b) ==
    /\ a.dateRange = b.dateRange
    /\ a.dateRange = "custom" =>
          a.startYear = b.startYear /\ a.endYear = b.endYear
    /\ a.dateRange = "event" =>
          a.eventPeriod = b.eventPeriod /\ a.eventYears = b.eventYears

\* C29: the query string updateURL writes for a configuration, read by
\* loadConfigFromURL on a fresh page, restores the mode, the asset and
\* denominator codes the chart functions read (data-asset), the amount and
\* the date range
C29_UrlRoundTrip ==
    IsUrl =>
        /\ SameMode(result.pt.config, result.val)
        /\ SameCodes(result.pt.config, result.val)
        /\ SameAmount(result.pt.config, result.val)
        /\ SameDates(result.pt.config, result.val)

----------------------------------------------------------------------------
(* Claims about createDataset *)

IsChart == result.op = "updateChartAndCalculator" /\ result.pt.started

HasDataArray(asset) == asset \in assetMetadata \/ asset \in DOMAIN customAssets

\* the observations of the asset's series that lie in the range and have a
\* value in the denominator
Surviving(asset, denominator, dateRange) ==
    LET source == getDataArrayForAsset(asset)
    IN  {i \in 1..Len(source) :
            /\ source[i].date >= dateRange.start
            /\ source[i].date <= dateRange.end
            /\ getAssetValue(source[i], asset, denominator) # Null}

\* C22: createDataset drops a point without a value and goes on: its
\* series holds exactly the observations in range whose getAssetValue is
\* not null, in the order of the source, as {x: date, y: value}; it
\* returns an error object when the asset has no data array or no point
\* is left, and only then
C22_DatasetOfNonNullPoints ==
    IsChart =>
        LET chart == result.val.chart
            source == getDataArrayForAsset(result.asset)
            left == Surviving(result.asset, result.mode, result.pt.range)
        IN  IF ~HasDataArray(result.asset) \/ left = {}
            THEN chart.kind = "error"
            ELSE /\ chart.kind = "dataset"
                 /\ Len(chart.data) = Cardinality(left)
                 /\ \A i \in left :
                       LET k == Cardinality({j \in left : j <= i})
                       IN  /\ chart.data[k].x = source[i].date
                           /\ chart.data[k].y
                                 = getAssetValue(source[i], result.asset,
                                                 result.mode)
                           /\ chart.data[k].y # Null

\* the chart of CAPE in a ticker whose bars begin more than 30 days after
\* the first stock observation: that observation is dropped, the next kept
C22_Witness ==
    /\ IsChart
    /\ result.asset = "cape"
    /\ result.mode = "T"
    /\ Len(stockData) = 2
    /\ result.val.chart.kind = "dataset"
    /\ Len(result.val.chart.data) = 1
    /\ result.val.chart.data[1].x = stockData[2].date

----------------------------------------------------------------------------
(* Claims about debounce *)

Calls == debounced.calls

Runs == debounced.runs

\* call k begins a burst: it is the first call or came wait or more after
\* the call before it
BeginsBurst(k) == k = 1 \/ Calls[k].at - Calls[k - 1].at >= wait

\* call k ends a burst that is over: the next call began another one
EndsBurst(k) == k < Len(Calls) /\ BeginsBurst(k + 1)

RunsAfter(k) == {r \in 1..Len(Runs) : Runs[r].after = k}

\* no run of func comes earlier than wait after the most recent call, and
\* each run has the arguments of that call
RunsLateWithLastArgs ==
    \A r \in 1..Len(Runs) :
        /\ Runs[r].after >= 1
        /\ Runs[r].at - Calls[Runs[r].after].at >= wait
        /\ Runs[r].args = Calls[Runs[r].after].args

\* C28 as stated: func never runs earlier than wait after the most recent
\* call, and every burst of calls, each less than wait after the one
\* before, makes func run exactly once, with the arguments of its last call
C28_OneRunPerBurst ==
    /\ RunsLateWithLastArgs
    /\ \A k \in 1..Len(Calls) : Cardinality(RunsAfter(k)) <= 1
    /\ \A k \in 1..Len(Calls) : EndsBurst(k) => Cardinality(RunsAfter(k)) = 1

\* C28 amended: func never runs earlier than wait after the most recent
\* call, each run has the arguments of that call, no call is followed by
\* more than one run, and the most recent call has had its run or its timer
\* is set; a call cancels the timer of the call before it, run or not
C28_AtMostOneRunPerBurst ==
    /\ RunsLateWithLastArgs
    /\ \A k \in 1..Len(Calls) : Cardinality(RunsAfter(k)) <= 1
    /\ Len(Calls) > 0 =>
          IF RunsAfter(Len(Calls)) = {}
          THEN /\ debounced.timeout.call = Len(Calls)
               /\ debounced.timeout.due = Calls[Len(Calls)].at + wait
               /\ debounced.timeout.args = Calls[Len(Calls)].args
          ELSE debounced.timeout = NoTimeout

\* a burst of two calls with different arguments, one run with the
\* arguments of the second, and a later call
C28_Witness ==
    /\ Len(Calls) = 3
    /\ Calls[2].at - Calls[1].at < wait
    /\ Calls[1].args # Calls[2].args
    /\ BeginsBurst(3)
    /\ Len(Runs) = 1
    /\ Runs[1].after = 2
    /\ Runs[1].args = Calls[2].args

====
